---- MODULE Spec2Model ----
(***************************************************************************)
(* Verification model of CorridorOS: the DRF-like allocator                *)
(* (INTEGRATIONS.md), the attestation service (daemon/attestd), the fabric *)
(* manager's inventory and attestation tickets (daemon/fabmand), the       *)
(* free-form memory service (daemon/memqosd) and its mutex, the HELIOPASS  *)
(* calibration service, and the lifecycle supervisor that drives Corridor  *)
(* and MemoryBundle objects over the allocator and the calibration.        *)
(***************************************************************************)
EXTENDS Integers, Sequences, FiniteSets, TLC

\* ---------------------------------------------------------------- bounds
MaxIds == 2          \* identifiers offered to the DRF allocator
MaxLanes == 1        \* largest lane capacity the constructor is given
MaxGbps == 1         \* largest bandwidth capacity the constructor is given
MaxReq == 2          \* largest amount requested per pool

MaxTickets == 2      \* attestations issued per service
MaxAdvances == 2     \* steps of the clock
SubSec == 2          \* clock units per second
MaxAllocs == 2       \* memqosd allocations created
MaxWraps == 1        \* times the bandwidth gauge is moved by a wrapped difference
DeviceLanes == 2     \* lane capacity of the device under the lifecycle supervisor
DeviceGbps == 2      \* bandwidth capacity of that device
ShortEscalationTimeoutMs == 300  \* an escalation timeout configured below the default
MaxPaths == 2         \* path identifiers fabmand hands out
MaxProcs == 2         \* request goroutines running in memqosd at once
MaxMoves == 2         \* migrations between latency classes

VARIABLES
  capacity,         \* DRFScheduler.capacity : {lanes, gbps}
  alloc,            \* DRFScheduler.alloc    : Map id -> {lanes, gbps}
  drfRet,           \* the DRFScheduler call of the last step and what it returned
  now,              \* time.Now(), in clock units
  advances,         \* how many times the clock has been moved
  attestations,     \* attestd: AttestationService.attestations
  att_nextID,       \* attestd: AttestationService.nextID
  fab_attestations, \* fabmand: FabricManagerService.attestations
  attRet,           \* the last attestd / fabmand attestation call and its result
  allocations,      \* memqosd: FFMService.allocations
  ffm_nextID,       \* memqosd: FFMService.nextID
  metrics,          \* memqosd: the AllocationsTotal and BandwidthTotal gauges
  memRet,           \* the last memqosd call and its result
  life,             \* lifecycle supervisor: resource id -> its entry
  escalationTimeout, \* lifecycle supervisor: the configured escalation timeout, ms
  calRet,           \* the response of the Calibrate call of the last step
  devices,          \* fabmand: FabricManagerService.devices, id -> status
  paths,            \* fabmand: FabricManagerService.paths
  nextPathID,       \* fabmand: FabricManagerService.nextPathID
  policies,         \* fabmand: the QoS policies, by name
  fabRet,           \* the last fabmand inventory call and its result
  ffm_pc,           \* memqosd: where each request goroutine stands
  ffm_mutex,        \* memqosd: FFMService.mutex, its writer and its readers
  ffm_call,         \* memqosd: the request each goroutine is serving
  cal_calls,        \* HELIOPASSService: the locals of each running Calibrate call
  sec_pc,           \* SecurityService: where each request goroutine stands
  sec_mutex,        \* SecurityService.mutex, its writer and its readers
  pqcKeys,          \* SecurityService.pqcKeys, the key ids
  sec_policies,     \* SecurityService.policies, the policy ids
  auditLog,         \* SecurityService.auditLog
  translations,     \* compatd: CompatibilityService.translations
  profiles,         \* compatd: the ids in CompatibilityService.profiles
  jitCache,         \* compatd: CompatibilityService.jitCache
  cmp_nextID,       \* compatd: CompatibilityService.nextID
  cmp_tasks,        \* compatd: the simulateTranslation goroutines
  cmp_mutex         \* compatd: the holder of CompatibilityService.mutex

drfVars == <<capacity, alloc, drfRet>>
clockVars == <<now, advances>>
attVars == <<attestations, att_nextID, fab_attestations, attRet>>
memVars == <<allocations, ffm_nextID, metrics, memRet>>
lifeVars == <<life, escalationTimeout, calRet>>
fabVars == <<devices, paths, nextPathID, policies, fabRet>>
lockVars == <<ffm_pc, ffm_mutex, ffm_call>>
calVars == <<cal_calls>>
secVars == <<sec_pc, sec_mutex, pqcKeys, sec_policies, auditLog>>
cmpVars == <<translations, profiles, jitCache, cmp_nextID, cmp_tasks, cmp_mutex>>
vars == <<capacity, alloc, drfRet, now, advances, attestations, att_nextID,
          fab_attestations, attRet, allocations, ffm_nextID, metrics, memRet,
          life, escalationTimeout, calRet,
          devices, paths, nextPathID, policies, fabRet,
          ffm_pc, ffm_mutex, ffm_call, cal_calls,
          sec_pc, sec_mutex, pqcKeys, sec_policies, auditLog,
          translations, profiles, jitCache, cmp_nextID, cmp_tasks, cmp_mutex>>

\* ------------------------------------------------------------ map helpers
MapSet(m, k, v) == [x \in (DOMAIN m) \cup {k} |-> IF x = k THEN v ELSE m[x]]
MapDelete(m, k) == [x \in (DOMAIN m) \ {k} |-> m[x]]
EmptyMap == [x \in {} |-> 0]

Min(a, b) == IF a <= b THEN a ELSE b
Max(a, b) == IF a >= b THEN a ELSE b

\* ======================================================= DRFScheduler
Ids == 1..MaxIds
Requests == [lanes : 0..MaxReq, gbps : 0..MaxReq, floorMandatory : BOOLEAN]
NoReq == [lanes |-> 0, gbps |-> 0, floorMandatory |-> FALSE]
Zero == [lanes |-> 0, gbps |-> 0]

\* the sum of one field over the entries of a map keyed by 1..n
RECURSIVE SumField(_, _, _)
SumField(m, field, n) ==
  IF n = 0 THEN 0
  ELSE (IF n \in DOMAIN m THEN m[n][field] ELSE 0) + SumField(m, field, n - 1)

\* _used(): the sum of the recorded grants, per pool
_used == [lanes |-> SumField(alloc, "lanes", MaxIds),
          gbps  |-> SumField(alloc, "gbps", MaxIds)]

\* faulty variant: the bandwidth pool is left out of the fit test
canFit_lanesOnly(req) ==
  \E used \in {_used} : used.lanes + req.lanes <= capacity.lanes

\* canFit(req): const used = this._used(), then both pools are tested
canFit(req) ==
  \E used \in {_used} :
    /\ used.lanes + req.lanes <= capacity.lanes
    /\ used.gbps + req.gbps <= capacity.gbps

\* faulty variant: the request is recorded as asked, without the fit test or the clamp
allocate_unclamped(id, req) ==
  /\ alloc' = MapSet(alloc, id, [lanes |-> req.lanes, gbps |-> req.gbps])
  /\ drfRet' = [op |-> "allocate", id |-> id, req |-> req,
                granted |-> [lanes |-> req.lanes, gbps |-> req.gbps],
                floorMet |-> TRUE, error |-> "none"]
  /\ UNCHANGED capacity

\* faulty variant: a request that does not fit is denied instead of granted in part
allocate_denyPartial(id, req) ==
  IF canFit(req)
  THEN /\ alloc' = MapSet(alloc, id, [lanes |-> req.lanes, gbps |-> req.gbps])
       /\ drfRet' = [op |-> "allocate", id |-> id, req |-> req,
                     granted |-> [lanes |-> req.lanes, gbps |-> req.gbps],
                     floorMet |-> TRUE, error |-> "none"]
       /\ UNCHANGED capacity
  ELSE /\ alloc' = alloc
       /\ drfRet' = [op |-> "allocate", id |-> id, req |-> req,
                     granted |-> Zero, floorMet |-> FALSE, error |-> "none"]
       /\ UNCHANGED capacity

\* faulty variant: the other holders are evicted to make room for the new request
allocate_preempt(id, req) ==
  LET granted == [lanes |-> Min(req.lanes, capacity.lanes),
                  gbps  |-> Min(req.gbps, capacity.gbps)]
  IN /\ alloc' = MapSet(EmptyMap, id, granted)
     /\ drfRet' = [op |-> "allocate", id |-> id, req |-> req,
                   granted |-> granted,
                   floorMet |-> (granted.gbps >= req.gbps
                                 /\ granted.lanes >= req.lanes),
                   error |-> "none"]
     /\ UNCHANGED capacity

\* allocate(id, req): the request's floorMandatory property is never read
allocate(id, req) ==
  IF canFit(req)
  THEN /\ alloc' = MapSet(alloc, id, [lanes |-> req.lanes, gbps |-> req.gbps])
       /\ drfRet' = [op |-> "allocate", id |-> id, req |-> req,
                     granted |-> [lanes |-> req.lanes, gbps |-> req.gbps],
                     floorMet |-> TRUE, error |-> "none"]
       /\ UNCHANGED capacity
  ELSE \E used \in {_used} :
         \E granted \in
             {[lanes |-> Max(0, Min(req.lanes, capacity.lanes - used.lanes)),
               gbps  |-> Max(0, Min(req.gbps, capacity.gbps - used.gbps))]} :
           /\ alloc' = MapSet(alloc, id, granted)
           /\ drfRet' = [op |-> "allocate", id |-> id, req |-> req,
                         granted |-> granted,
                         floorMet |-> (granted.gbps >= req.gbps
                                       /\ granted.lanes >= req.lanes),
                         error |-> "none"]
           /\ UNCHANGED capacity

\* faulty variant: release drops every grant, not only the one of id
release_clear(id) ==
  /\ alloc' = EmptyMap
  /\ drfRet' = [op |-> "release", id |-> id, req |-> NoReq,
                granted |-> Zero, floorMet |-> FALSE, error |-> "none"]
  /\ UNCHANGED capacity

release(id) ==
  /\ alloc' = MapDelete(alloc, id)
  /\ drfRet' = [op |-> "release", id |-> id, req |-> NoReq,
                granted |-> Zero, floorMet |-> FALSE, error |-> "none"]
  /\ UNCHANGED capacity

\* constructor(capacity): an absent capacity counts as 0
DRFInit ==
  /\ capacity \in [lanes : 0..MaxLanes, gbps : 0..MaxGbps]
  /\ alloc = EmptyMap
  /\ drfRet = [op |-> "new", id |-> 0, req |-> NoReq, granted |-> Zero,
               floorMet |-> FALSE, error |-> "none"]

DoAllocate == \E id \in Ids, req \in Requests : allocate(id, req)
DoRelease == \E id \in Ids : release(id)

\* ================================================================ clock
\* 24 * time.Hour, in clock units
Ttl == 24 * 3600 * SubSec
\* time.Time.Unix(): whole seconds
Unix(t) == t \div SubSec
\* time.Time.After
After(t, u) == t > u

ClockInit == now = 0 /\ advances = 0

\* time passes: by one clock unit, or by a ticket's lifetime
Advance ==
  /\ advances < MaxAdvances
  /\ \E d \in {1, Ttl} : now' = now + d
  /\ advances' = advances + 1

\* ============================================================== attestd
\* a hash string, by what the validators look at
Hashes == {[length |-> 64, allZero |-> FALSE, known |-> TRUE],
           [length |-> 64, allZero |-> FALSE, known |-> FALSE],
           [length |-> 64, allZero |-> TRUE, known |-> FALSE],
           [length |-> 0, allZero |-> FALSE, known |-> FALSE]}
DeviceIDs == {"cxl-dev-001", "ghost"}
AttestationRequests ==
  [deviceID : {"cxl-dev-001"}, firmwareHash : Hashes, configHash : Hashes,
   requirePQC : BOOLEAN]

validateFirmwareHash(hash) ==
  IF hash.known THEN TRUE
  ELSE hash.length = 64 /\ ~hash.allZero

validateConfigHash(hash) ==
  hash.length = 64 /\ ~hash.allZero

\* faulty variant: a single valid hash is enough for the upper trust levels
determineTrustLevel_either(firmwareValid, configValid, pqcRequired) ==
  IF firmwareValid \/ configValid
  THEN IF pqcRequired THEN "high" ELSE "medium"
  ELSE "untrusted"

determineTrustLevel(firmwareValid, configValid, pqcRequired) ==
  IF firmwareValid /\ configValid
  THEN IF pqcRequired THEN "high" ELSE "medium"
  ELSE IF firmwareValid \/ configValid THEN "low"
  ELSE "untrusted"

NoResult == [op |-> "none", id |-> 0, found |-> FALSE, at |-> 0,
             valid |-> FALSE, issuedValid |-> FALSE, issuedAt |-> 0,
             expiresAt |-> 0, trustLevel |-> "", firmwareValid |-> FALSE,
             configValid |-> FALSE, requirePQC |-> FALSE, pqcSignature |-> ""]

AttInit ==
  /\ attestations = EmptyMap
  /\ att_nextID = 1
  /\ fab_attestations = EmptyMap
  /\ attRet = NoResult

\* faulty variant: one validated hash is enough for a valid result
AttestDevice_validEither(req) ==
  LET attestationID == att_nextID
      firmwareValid == validateFirmwareHash(req.firmwareHash)
      configValid == validateConfigHash(req.configHash)
      trustLevel == determineTrustLevel(firmwareValid, configValid, req.requirePQC)
      pqcSignature == IF req.requirePQC THEN "pqc-sig" ELSE ""
      result == [deviceID |-> req.deviceID,
                 valid |-> (firmwareValid \/ configValid),
                 trustLevel |-> trustLevel,
                 firmwareValid |-> firmwareValid,
                 configValid |-> configValid,
                 pqcSignature |-> pqcSignature,
                 issuedAt |-> now,
                 expiresAt |-> now + Ttl]
  IN /\ att_nextID' = att_nextID + 1
     /\ attestations' = MapSet(attestations, attestationID, result)
     /\ attRet' = [NoResult EXCEPT !.op = "AttestDevice", !.id = attestationID,
                     !.found = TRUE, !.at = now, !.valid = result.valid,
                     !.issuedValid = result.valid,
                     !.issuedAt = result.issuedAt, !.expiresAt = result.expiresAt,
                     !.trustLevel = trustLevel,
                     !.firmwareValid = firmwareValid, !.configValid = configValid,
                     !.requirePQC = req.requirePQC, !.pqcSignature = pqcSignature]
     /\ UNCHANGED fab_attestations

\* AttestationService.AttestDevice
AttestDevice(req) ==
  LET attestationID == att_nextID
      firmwareValid == validateFirmwareHash(req.firmwareHash)
      configValid == validateConfigHash(req.configHash)
      trustLevel == determineTrustLevel(firmwareValid, configValid, req.requirePQC)
      pqcSignature == IF req.requirePQC THEN "pqc-sig" ELSE ""
      result == [deviceID |-> req.deviceID,
                 valid |-> (firmwareValid /\ configValid),
                 trustLevel |-> trustLevel,
                 firmwareValid |-> firmwareValid,
                 configValid |-> configValid,
                 pqcSignature |-> pqcSignature,
                 issuedAt |-> now,
                 expiresAt |-> now + Ttl]
  IN /\ att_nextID' = att_nextID + 1
     /\ attestations' = MapSet(attestations, attestationID, result)
     /\ attRet' = [NoResult EXCEPT !.op = "AttestDevice", !.id = attestationID,
                     !.found = TRUE, !.at = now, !.valid = result.valid,
                     !.issuedValid = result.valid,
                     !.issuedAt = result.issuedAt, !.expiresAt = result.expiresAt,
                     !.trustLevel = trustLevel,
                     !.firmwareValid = firmwareValid, !.configValid = configValid,
                     !.requirePQC = req.requirePQC, !.pqcSignature = pqcSignature]
     /\ UNCHANGED fab_attestations

\* the stored tickets after a lookup of id at time t: "if time.Now().After(
\* ExpiresAt) { Valid = false }", written through the stored pointer
Expire(m, id, t) ==
  IF id \in DOMAIN m /\ After(t, m[id].expiresAt)
  THEN [m EXCEPT ![id].valid = FALSE]
  ELSE m

\* what GetAttestation returns for attestationID, given the tickets after it
GetAttestationResult(attestationID, after) ==
  IF attestationID \notin DOMAIN attestations
  THEN [NoResult EXCEPT !.op = "GetAttestation",
          !.id = attestationID, !.at = now]
  ELSE [NoResult EXCEPT !.op = "GetAttestation",
          !.id = attestationID, !.found = TRUE, !.at = now,
          !.valid = after[attestationID].valid,
          !.issuedValid = (attestations[attestationID].firmwareValid
                           /\ attestations[attestationID].configValid),
          !.issuedAt = attestations[attestationID].issuedAt,
          !.expiresAt = attestations[attestationID].expiresAt,
          !.trustLevel = attestations[attestationID].trustLevel,
          !.firmwareValid = attestations[attestationID].firmwareValid,
          !.configValid = attestations[attestationID].configValid,
          !.pqcSignature = attestations[attestationID].pqcSignature]

\* AttestationService.GetAttestation
GetAttestation(attestationID) ==
  /\ attestations' = Expire(attestations, attestationID, now)
  /\ attRet' = GetAttestationResult(attestationID, attestations')
  /\ UNCHANGED <<att_nextID, fab_attestations>>

\* ============================================== fabmand: attestation tickets
\* the keys of FabricManagerService.devices, set once by initializeMockDevices
FabDevices == {"cxl-dev-001", "cxl-dev-002", "cxl-dev-003"}

\* FabricManagerService.AttestDevice: the ticket is keyed by the Unix second
Fab_AttestDevice(req) ==
  IF req.deviceID \notin FabDevices
  THEN /\ attRet' = [NoResult EXCEPT !.op = "Fab.AttestDevice", !.at = now]
       /\ UNCHANGED <<attestations, att_nextID, fab_attestations>>
  ELSE LET ticketID == Unix(now)
           ticket == [deviceID |-> req.deviceID, issuedAt |-> now,
                      expiresAt |-> now + Ttl, valid |-> TRUE]
       IN /\ fab_attestations' = MapSet(fab_attestations, ticketID, ticket)
          /\ attRet' = [NoResult EXCEPT !.op = "Fab.AttestDevice",
                          !.id = ticketID, !.found = TRUE, !.at = now,
                          !.valid = TRUE, !.issuedValid = TRUE,
                          !.issuedAt = now, !.expiresAt = now + Ttl,
                          !.requirePQC = req.requirePQC]
          /\ UNCHANGED <<attestations, att_nextID>>

\* FabricManagerService.VerifyAttestation
VerifyAttestation(ticketID) ==
  IF ticketID \notin DOMAIN fab_attestations
  THEN /\ attRet' = [NoResult EXCEPT !.op = "VerifyAttestation",
                       !.id = ticketID, !.at = now]
       /\ UNCHANGED <<attestations, att_nextID, fab_attestations>>
  ELSE /\ fab_attestations' = Expire(fab_attestations, ticketID, now)
       /\ attRet' = [NoResult EXCEPT !.op = "VerifyAttestation",
                       !.id = ticketID, !.found = TRUE, !.at = now,
                       !.valid = fab_attestations'[ticketID].valid,
                       !.issuedValid = TRUE,
                       !.issuedAt = fab_attestations[ticketID].issuedAt,
                       !.expiresAt = fab_attestations[ticketID].expiresAt]
       /\ UNCHANGED <<attestations, att_nextID>>

DoAttestDevice ==
  /\ att_nextID <= MaxTickets
  /\ \E req \in AttestationRequests : AttestDevice(req)
DoGetAttestation ==
  \E id \in 1..(MaxTickets + 1) : GetAttestation(id)
DoFabAttestDevice ==
  /\ Cardinality(DOMAIN fab_attestations) < MaxTickets
  /\ \E d \in DeviceIDs, pqc \in BOOLEAN :
       Fab_AttestDevice([deviceID |-> d, requirePQC |-> pqc])
DoVerifyAttestation ==
  \E id \in (DOMAIN fab_attestations) \cup {Unix(now) + 1} : VerifyAttestation(id)

\* ============================================================== memqosd
\* the default of the ffm command's --bw-floor flag
DefaultBwFloor == 150
FloorInputs == {1, DefaultBwFloor}
LatencyInputs == {"T2"}
\* attestation_ticket: 0 is the empty string, n is "attest-n"
TicketInputs == {0, 1}
AllocationRequests ==
  [bytes : {4096}, latencyClass : LatencyInputs, bandwidthFloor : FloorInputs,
   securityDomain : {"tenant-a"},
   attestationRequired : BOOLEAN, attestationTicket : TicketInputs]
NoAllocReq == [bytes |-> 0, latencyClass |-> "", bandwidthFloor |-> 0,
               securityDomain |-> "",
               attestationRequired |-> FALSE, attestationTicket |-> 0]

\* the bandwidth the fabric provisions for pooled memory: its two Type-3
\* (memory) devices, cxl-dev-001 and cxl-dev-002, 64 GB/s each
PoolBandwidthGBs == 64 + 64

\* uint64(float64(floor) * 0.9)
Achieved(floor) == (floor * 9) \div 10

\* a float64 gauge holding wraps * 2^64 + gbps
GaugeAdd(g, delta) == [g EXCEPT !.gbps = g.gbps + delta]
\* Add(float64(newFloor - oldFloor)) with the difference taken in uint64
GaugeAddDiff(g, newFloor, oldFloor) ==
  IF newFloor >= oldFloor
  THEN [g EXCEPT !.gbps = g.gbps + (newFloor - oldFloor)]
  ELSE [g EXCEPT !.wraps = g.wraps + 1, !.gbps = g.gbps - (oldFloor - newFloor)]

MemInit ==
  /\ allocations = EmptyMap
  /\ ffm_nextID = 1
  /\ metrics = [allocationsTotal |-> 0,
                bandwidthTotal |-> [wraps |-> 0, gbps |-> 0],
                migrationCount |-> 0]
  /\ memRet = [op |-> "none", id |-> 0, err |-> "none", req |-> NoAllocReq,
               floor |-> 0, resp |-> "unused"]

\* what GET /v1/attest/<ticket> can come back with: no answer at all, 404
\* from handleGetAttestation when the ticket is unknown, or 200 with the
\* result's valid field
VerifierResponses == {"unreachable", "404", "valid", "invalid"}

\* faulty variant: a verification that fails or reports an invalid ticket lets the
\* request through
verifyAttestation_failOpen(ticket, resp) ==
  [ok |-> TRUE, err |-> FALSE]

\* verifyAttestation(ticket), given what the GET came back with
verifyAttestation(ticket, resp) ==
  IF resp = "unreachable" THEN [ok |-> FALSE, err |-> TRUE]
  ELSE IF resp = "404" THEN [ok |-> FALSE, err |-> TRUE]
  ELSE [ok |-> (resp = "valid"), err |-> FALSE]

\* faulty variant: the identifier counter is not advanced
FFM_Create_sameID(req, resp) ==
  LET id == ffm_nextID
      handle == [id |-> id,
                 bytes |-> req.bytes,
                 latencyClass |-> req.latencyClass,
                 bandwidthFloor |-> req.bandwidthFloor,
                 securityDomain |-> req.securityDomain,
                 fd |-> ffm_nextID + 1,
                 achievedBandwidth |-> Achieved(req.bandwidthFloor),
                 movedPages |-> 0,
                 attestationTicket |-> req.attestationTicket]
  IN /\ ffm_nextID' = ffm_nextID
     /\ allocations' = MapSet(allocations, id, handle)
     /\ metrics' = [allocationsTotal |-> Cardinality(DOMAIN allocations'),
                    bandwidthTotal |-> GaugeAdd(metrics.bandwidthTotal,
                                                req.bandwidthFloor),
                    migrationCount |-> metrics.migrationCount]
     /\ memRet' = [op |-> "Allocate", id |-> id, err |-> "none", req |-> req,
                   floor |-> 0, resp |-> resp]

\* the part of Allocate after the attestation check
FFM_Create(req, resp) ==
  LET id == ffm_nextID
      handle == [id |-> id,
                 bytes |-> req.bytes,
                 latencyClass |-> req.latencyClass,
                 bandwidthFloor |-> req.bandwidthFloor,
                 securityDomain |-> req.securityDomain,
                 fd |-> ffm_nextID + 1,
                 achievedBandwidth |-> Achieved(req.bandwidthFloor),
                 movedPages |-> 0,
                 attestationTicket |-> req.attestationTicket]
  IN /\ ffm_nextID' = ffm_nextID + 1
     /\ allocations' = MapSet(allocations, id, handle)
     /\ metrics' = [allocationsTotal |-> Cardinality(DOMAIN allocations'),
                    bandwidthTotal |-> GaugeAdd(metrics.bandwidthTotal,
                                                req.bandwidthFloor),
                    migrationCount |-> metrics.migrationCount]
     /\ memRet' = [op |-> "Allocate", id |-> id, err |-> "none", req |-> req,
                   floor |-> 0, resp |-> resp]

FFM_Reject(req, resp, err) ==
  /\ memRet' = [op |-> "Allocate", id |-> 0, err |-> err, req |-> req,
                floor |-> 0, resp |-> resp]
  /\ UNCHANGED <<allocations, ffm_nextID, metrics>>

\* FFMService.Allocate
FFM_Allocate(req, resp) ==
  IF req.attestationRequired
  THEN IF req.attestationTicket = 0
       THEN FFM_Reject(req, "unused", "attestation required but no ticket provided")
       ELSE \E v \in {verifyAttestation(req.attestationTicket, resp)} :
              IF v.err
              THEN FFM_Reject(req, resp, "attestation verification failed")
              ELSE IF ~v.ok
              THEN FFM_Reject(req, resp, "attestation ticket invalid or expired")
              ELSE FFM_Create(req, resp)
  ELSE FFM_Create(req, "unused")

\* FFMService.AdjustBandwidth
AdjustBandwidth(id, floorGBs) ==
  IF id \notin DOMAIN allocations
  THEN /\ memRet' = [op |-> "AdjustBandwidth", id |-> id, err |-> "not found",
                     req |-> NoAllocReq, floor |-> floorGBs, resp |-> "unused"]
       /\ UNCHANGED <<allocations, ffm_nextID, metrics>>
  ELSE LET oldFloor == allocations[id].bandwidthFloor
       IN /\ allocations' = [allocations EXCEPT
                               ![id].bandwidthFloor = floorGBs,
                               ![id].achievedBandwidth = Achieved(floorGBs)]
          /\ metrics' = [metrics EXCEPT !.bandwidthTotal =
                           GaugeAddDiff(metrics.bandwidthTotal, floorGBs, oldFloor)]
          /\ memRet' = [op |-> "AdjustBandwidth", id |-> id, err |-> "none",
                        req |-> NoAllocReq, floor |-> floorGBs, resp |-> "unused"]
          /\ UNCHANGED ffm_nextID

\* the pages one migration is counted as
MigrationPages == 1000000
\* latency_class and target as memqosd receives them: any string
TierInputs == {"T0", "T2", "T9"}

\* faulty variant: the handle is released and allocated again in the new class
AdjustLatencyClass_recreate(id, target) ==
  IF id \notin DOMAIN allocations
  THEN /\ memRet' = [op |-> "AdjustLatencyClass", id |-> id, err |-> "not found",
                     req |-> [NoAllocReq EXCEPT !.latencyClass = target],
                     floor |-> 0, resp |-> "unused"]
       /\ UNCHANGED <<allocations, ffm_nextID, metrics>>
  ELSE /\ allocations' =
            MapSet(MapDelete(allocations, id), ffm_nextID,
                   [allocations[id] EXCEPT !.id = ffm_nextID,
                                           !.latencyClass = target,
                                           !.movedPages = 0])
       /\ ffm_nextID' = ffm_nextID + 1
       /\ metrics' = [metrics EXCEPT
                        !.migrationCount = metrics.migrationCount + MigrationPages]
       /\ memRet' = [op |-> "AdjustLatencyClass", id |-> id, err |-> "none",
                     req |-> [NoAllocReq EXCEPT !.latencyClass = target],
                     floor |-> 0, resp |-> "unused"]

\* FFMService.AdjustLatencyClass: the target is stored as it came
AdjustLatencyClass(id, target) ==
  IF id \notin DOMAIN allocations
  THEN /\ memRet' = [op |-> "AdjustLatencyClass", id |-> id, err |-> "not found",
                     req |-> [NoAllocReq EXCEPT !.latencyClass = target],
                     floor |-> 0, resp |-> "unused"]
       /\ UNCHANGED <<allocations, ffm_nextID, metrics>>
  ELSE /\ allocations' = [allocations EXCEPT
                            ![id].latencyClass = target,
                            ![id].movedPages =
                               allocations[id].movedPages + MigrationPages]
       /\ metrics' = [metrics EXCEPT
                        !.migrationCount = metrics.migrationCount + MigrationPages]
       /\ memRet' = [op |-> "AdjustLatencyClass", id |-> id, err |-> "none",
                     req |-> [NoAllocReq EXCEPT !.latencyClass = target],
                     floor |-> 0, resp |-> "unused"]
       /\ UNCHANGED ffm_nextID

DoFFMAllocate ==
  /\ ffm_nextID <= MaxAllocs
  /\ \E req \in AllocationRequests, resp \in VerifierResponses :
       FFM_Allocate(req, resp)
\* POST /v1/ffm/alloc with any latency_class, no attestation asked for
DoFFMAllocateTier ==
  /\ ffm_nextID <= MaxAllocs
  /\ \E tier \in TierInputs :
       FFM_Allocate([bytes |-> 4096, latencyClass |-> tier,
                     bandwidthFloor |-> DefaultBwFloor,
                     securityDomain |-> "tenant-a",
                     attestationRequired |-> FALSE, attestationTicket |-> 0],
                    "unused")
DoAdjustLatencyClass ==
  /\ metrics.migrationCount < MaxMoves * MigrationPages
  /\ \E id \in 1..MaxAllocs, target \in TierInputs :
       AdjustLatencyClass(id, target)
DoAdjustBandwidth ==
  \E id \in 1..MaxAllocs, floorGBs \in FloorInputs :
    /\ (id \in DOMAIN allocations /\ floorGBs < allocations[id].bandwidthFloor)
         => metrics.bandwidthTotal.wraps < MaxWraps
    /\ AdjustBandwidth(id, floorGBs)

\* ==================================================== HELIOPASSService
\* the ambient profiles NewHELIOPASSService registers
Profiles == {"lab_default", "field_noise_low", "field_noise_high", "datacenter"}
maxIterations == 20

\* The bit error rates of a request, kept as the distance of currentBER from
\* the tolerance 1.1 * targetBER on a logarithmic scale:
\*   gap = ceiling(10 * ln((currentBER - targetBER) / (0.1 * targetBER))),
\* so that currentBER <= targetBER * 1.1 exactly when gap <= 0, and one
\* multiplication of the distance by exp(-0.2 * i) lowers gap by 2 * i.
\* targetPositive = FALSE is a targetBER of 0 under a positive currentBER: the
\* distance shrinks but currentBER <= 0 never holds.
BERs == [targetPositive : BOOLEAN, gap : Int]
\* faulty variant: the tolerance is wider than 10%
WithinTolerance_loose(ber) == ber.targetPositive /\ ber.gap <= 5

\* currentBER <= targetBER*1.1
WithinTolerance(ber) == ber.targetPositive /\ ber.gap <= 0

\* for !converged && iterations < maxIterations { ... }
RECURSIVE CalibrateLoop(_, _, _)
CalibrateLoop(ber, converged, iterations) ==
  IF ~converged /\ iterations < maxIterations
  THEN LET it == iterations + 1
           improved == [ber EXCEPT !.gap = ber.gap - 2 * it]
       IN CalibrateLoop(improved, WithinTolerance(improved), it)
  ELSE [ber |-> ber, converged |-> converged, iterations |-> iterations]

\* faulty variant: the status is not lowered when the loop runs out of iterations
CalibrateStatus_always(converged) == "converged"

\* status := "converged"; if !converged { status = "partial_convergence" }
CalibrateStatus(converged) ==
  IF converged THEN "converged" ELSE "partial_convergence"

NoCalibration == [err |-> "none", status |-> "", converged |-> FALSE,
                  iterations |-> 0, finalBER |-> [targetPositive |-> TRUE, gap |-> 0]]

\* HELIOPASSService.Calibrate
Calibrate(req) ==
  IF req.ambientProfile \notin Profiles
  THEN [NoCalibration EXCEPT !.err = "unknown ambient profile"]
  ELSE LET out == CalibrateLoop(req.ber, FALSE, 0)
       IN [err |-> "none",
           status |-> CalibrateStatus(out.converged),
           converged |-> out.converged,
           iterations |-> out.iterations,
           finalBER |-> out.ber]

\* --------------------------------- HELIOPASSService: a call, step by step
\* the request goroutines of handleCalibrate
CalCalls == {1, 2}
\* requests: one that meets the tolerance in the 10th iteration, one that
\* misses it by one iteration, one that starts within the tolerance, one with
\* a targetBER of 0, and one that names a profile that is not registered
CalRequests ==
  {[corridorID |-> 1, ber |-> [targetPositive |-> TRUE, gap |-> 93],
    ambientProfile |-> "lab_default"],
   [corridorID |-> 1, ber |-> [targetPositive |-> TRUE, gap |-> 421],
    ambientProfile |-> "datacenter"],
   [corridorID |-> 1, ber |-> [targetPositive |-> TRUE, gap |-> -5],
    ambientProfile |-> "lab_default"],
   [corridorID |-> 1, ber |-> [targetPositive |-> FALSE, gap |-> 93],
    ambientProfile |-> "lab_default"],
   [corridorID |-> 1, ber |-> [targetPositive |-> TRUE, gap |-> 93],
    ambientProfile |-> "unknown"]}
NoCalReq == [corridorID |-> 0, ber |-> [targetPositive |-> TRUE, gap |-> 0],
             ambientProfile |-> ""]
\* what rand.Float64() can return, as far as the bias voltages tell it apart
Draws == {0, 1}
\* the locals of one Calibrate call; bias stands for biasVoltages
NoCalCall == [pc |-> "idle", req |-> NoCalReq, ber |-> NoCalReq.ber,
              converged |-> FALSE, iterations |-> 0, bias |-> 0,
              ret |-> NoCalibration]

CalIdle == cal_calls = [p \in CalCalls |-> NoCalCall]

\* the entry of Calibrate up to the loop: the profile lookup, the locals and
\* the randomly drawn bias voltages
CalCall(p, req, draw) ==
  /\ cal_calls[p].pc = "idle"
  /\ cal_calls' = [cal_calls EXCEPT ![p] =
       IF req.ambientProfile \notin Profiles
       THEN [NoCalCall EXCEPT !.pc = "done", !.req = req,
               !.ret = [NoCalibration EXCEPT !.err = "unknown ambient profile"]]
       ELSE [pc |-> "loop", req |-> req, ber |-> req.ber,
             converged |-> FALSE, iterations |-> 0, bias |-> draw,
             ret |-> NoCalibration]]

\* faulty variant: the loop is given five iterations more
LoopContinues_long(converged, iterations) ==
  ~converged /\ iterations < maxIterations + 5

\* for !converged && iterations < maxIterations
LoopContinues(converged, iterations) ==
  ~converged /\ iterations < maxIterations

\* faulty variant: the correction grows with the iteration instead of decaying
Improve_growing(ber, it) == [ber EXCEPT !.gap = ber.gap + 2 * it]

\* improvement := math.Exp(-float64(iterations) * 0.2)
\* currentBER = targetBER + (currentBER-targetBER)*improvement
Improve(ber, it) == [ber EXCEPT !.gap = ber.gap - 2 * it]

\* faulty variant: the perturbation is applied to the bit error rate as well
Perturb_ber(c, noise, draw) ==
  IF noise
  THEN [c EXCEPT !.bias = draw, !.ber = [c.ber EXCEPT !.gap = c.ber.gap + draw]]
  ELSE c

\* if rand.Float64() < 0.1 { biasVoltages[i] += ... }
Perturb(c, noise, draw) ==
  IF noise THEN [c EXCEPT !.bias = draw] ELSE c

\* one pass through the loop body
CalIterate(p, noise, draw) ==
  /\ cal_calls[p].pc = "loop"
  /\ LoopContinues(cal_calls[p].converged, cal_calls[p].iterations)
  /\ \E it \in {cal_calls[p].iterations + 1} :
       \E improved \in {Improve(cal_calls[p].ber, it)} :
         cal_calls' = [cal_calls EXCEPT ![p] =
           Perturb([cal_calls[p] EXCEPT !.iterations = it,
                                        !.ber = improved,
                                        !.converged = WithinTolerance(improved)],
                   noise, draw)]

\* the loop is left: the status is chosen and the response returned
CalReturn(p) ==
  /\ cal_calls[p].pc = "loop"
  /\ ~LoopContinues(cal_calls[p].converged, cal_calls[p].iterations)
  /\ cal_calls' = [cal_calls EXCEPT ![p] =
       [cal_calls[p] EXCEPT
          !.pc = "done",
          !.ret = [err |-> "none",
                   status |-> CalibrateStatus(cal_calls[p].converged),
                   converged |-> cal_calls[p].converged,
                   iterations |-> cal_calls[p].iterations,
                   finalBER |-> cal_calls[p].ber]]]

\* handleCalibrate has written the response: the goroutine ends
CalForget(p) ==
  /\ cal_calls[p].pc = "done"
  /\ cal_calls' = [cal_calls EXCEPT ![p] = NoCalCall]

\* ================================================== lifecycle supervisor
\* (the operator that drives Corridor and MemoryBundle objects; modelled from
\* the specification's state machine and failure policy)
InitialBackoffMs == 100
MaxBackoffMs == 1600
DefaultEscalationTimeoutMs == 60000

Kinds == {"Corridor", "MemoryBundle"}
NonTerminal == {"Pending", "Allocating", "Ready", "Degraded"}
Phases == NonTerminal \cup {"Failed", "Releasing"}
\* the device the supervised resources are placed on
DeviceCapacity == [lanes |-> DeviceLanes, gbps |-> DeviceGbps]
\* what is asked of the supervisor: a one-lane corridor on one wavelength, or
\* a bundle over the whole bandwidth of the device
ResourceSpecs ==
  {[kind |-> "Corridor", lambdaNm |-> {1550},
    req |-> [lanes |-> 1, gbps |-> 1, floorMandatory |-> FALSE]],
   [kind |-> "MemoryBundle", lambdaNm |-> {},
    req |-> [lanes |-> 0, gbps |-> DeviceGbps, floorMandatory |-> FALSE]]}
\* what the corridor's telemetry shows when it is calibrated
BERInputs == {[targetPositive |-> TRUE, gap |-> 420],
              [targetPositive |-> TRUE, gap |-> 421]}
ProfileInputs == {"lab_default", "unknown"}

\* the entry of an identifier that names no resource
NoEntry == [phase |-> "None", kind |-> "", req |-> NoReq, lambdaNm |-> {},
            reason |-> "", degradedFor |-> 0, retryAt |-> 0, retryDelay |-> 0,
            attempts |-> 0]

\* a supervisor configured with an escalation timeout, supervising nothing yet
LifeInit(timeout) ==
  /\ life = [r \in Ids |-> NoEntry]
  /\ escalationTimeout = timeout
  /\ calRet = NoCalibration
LifeIdle == LifeInit(DefaultEscalationTimeoutMs)

\* a step that calls neither the allocator nor the calibration engine
NoDRFCall ==
  /\ drfRet' = [op |-> "none", id |-> 0, req |-> NoReq, granted |-> Zero,
                floorMet |-> FALSE, error |-> "none"]
  /\ UNCHANGED <<capacity, alloc>>
NoCalls == NoDRFCall /\ calRet' = NoCalibration /\ UNCHANGED escalationTimeout

\* faulty variant: the back-off delay keeps doubling
nextDelay_uncapped(delay) == 2 * delay
\* the back-off delay that follows: double, up to the cap
nextDelay(delay) == Min(2 * delay, MaxBackoffMs)

\* the entry of a resource that enters Degraded: the escalation timer and the
\* back-off start
EnterDegraded(e) ==
  [e EXCEPT !.phase = "Degraded", !.reason = "", !.degradedFor = 0,
            !.retryAt = InitialBackoffMs, !.retryDelay = InitialBackoffMs,
            !.attempts = 0]
\* the entry of a resource that enters another phase
Enter(e, phase, reason) ==
  [e EXCEPT !.phase = phase, !.reason = reason, !.degradedFor = 0,
            !.retryAt = 0, !.retryDelay = 0, !.attempts = 0]

\* a request enters the supervisor
Submit(r, spec) ==
  /\ life[r].phase = "None"
  /\ life' = [life EXCEPT ![r] = [NoEntry EXCEPT !.phase = "Pending",
                                   !.kind = spec.kind, !.req = spec.req,
                                   !.lambdaNm = spec.lambdaNm]]
  /\ NoCalls

\* Pending -> Allocating: the attestation check, if required, passes
AttestationCheck(r, passes) ==
  /\ life[r].phase = "Pending"
  /\ life' = [life EXCEPT ![r] =
                IF passes THEN Enter(life[r], "Allocating", "") ELSE life[r]]
  /\ NoCalls

\* the phase an admitted resource enters
AdmittedPhase(kind, floorMet, cal) ==
  IF floorMet /\ (kind = "Corridor" => (cal.err = "none" /\ cal.status = "converged"))
  THEN "Ready" ELSE "Degraded"

\* Allocating -> Ready | Degraded: the allocator admits the request and, for
\* a corridor, the calibration engine is invoked
Admit(r, ber, profile) ==
  /\ life[r].phase = "Allocating"
  /\ allocate(r, life[r].req)
  /\ calRet' = IF life[r].kind = "Corridor"
               THEN Calibrate([corridorID |-> r, ber |-> ber,
                               ambientProfile |-> profile])
               ELSE NoCalibration
  /\ life' = [life EXCEPT ![r] =
                IF AdmittedPhase(life[r].kind, drfRet'.floorMet, calRet') = "Ready"
                THEN Enter(life[r], "Ready", "")
                ELSE EnterDegraded(life[r])]
  /\ UNCHANGED escalationTimeout

\* Ready -> Degraded: telemetry shows BER drift beyond threshold, or the
\* achieved bandwidth falls below the floor
Drift(r) ==
  /\ life[r].phase = "Ready"
  /\ life' = [life EXCEPT ![r] = EnterDegraded(life[r])]
  /\ NoCalls

\* faulty variant: no escalation timer, the supervisor only wakes up to retry
NextDeadline_retryOnly(e) == e.retryAt
\* the elapsed time in Degraded at which the supervisor next acts on a resource:
\* its next retry, or the escalation timeout if that comes first
NextDeadline(e) == Min(e.retryAt, escalationTimeout)

\* a retry that is due: recovery brings the resource back to Ready, otherwise
\* the back-off delay doubles up to its cap
Retry(r, recovered) ==
  /\ life[r].phase = "Degraded"
  /\ life[r].degradedFor = life[r].retryAt
  /\ life[r].degradedFor < escalationTimeout
  /\ life' = [life EXCEPT ![r] =
                IF recovered
                THEN Enter(life[r], "Ready", "")
                ELSE [life[r] EXCEPT
                        !.attempts = life[r].attempts + 1,
                        !.retryDelay = nextDelay(life[r].retryDelay),
                        !.retryAt = life[r].retryAt + nextDelay(life[r].retryDelay)]]
  /\ NoCalls

\* Degraded sustained beyond the escalation timeout -> Failed
Escalate(r) ==
  /\ life[r].phase = "Degraded"
  /\ life[r].degradedFor >= escalationTimeout
  /\ life' = [life EXCEPT ![r] = Enter(life[r], "Failed", "EscalationTimeout")]
  /\ NoCalls

\* any -> Failed: the device disappears
DeviceDrop(r) ==
  /\ life[r].phase \in NonTerminal \cup {"Releasing"}
  /\ life' = [life EXCEPT ![r] = Enter(life[r], "Failed", "DeviceDrop")]
  /\ NoCalls

\* faulty variant: teardown is accepted in any phase, Failed included
Teardown_any(r) ==
  /\ life[r].phase \in Phases
  /\ life' = [life EXCEPT ![r] = Enter(life[r], "Releasing", "")]
  /\ NoCalls

\* any non-terminal -> Releasing: explicit teardown
Teardown(r) ==
  /\ life[r].phase \in NonTerminal
  /\ life' = [life EXCEPT ![r] = Enter(life[r], "Releasing", "")]
  /\ NoCalls

\* Releasing -> removed: the pool shares are released, the identifier is free
Finalize(r) ==
  /\ life[r].phase = "Releasing"
  /\ release(r)
  /\ life' = [life EXCEPT ![r] = NoEntry]
  /\ calRet' = NoCalibration
  /\ UNCHANGED escalationTimeout

\* time passes for a Degraded resource, up to the moment the supervisor next
\* has to act on it
TimeToDeadline(e) == NextDeadline(e) - e.degradedFor
Tick(r) ==
  /\ life[r].phase = "Degraded"
  /\ TimeToDeadline(life[r]) > 0
  /\ life' = [life EXCEPT ![r].degradedFor =
                 life[r].degradedFor + TimeToDeadline(life[r])]
  /\ NoCalls

\* ================================================== fabmand: inventory
DeviceInputs == {"cxl-dev-001", "ghost"}
StatusInputs == {"active", "maintenance", "disabled", "bogus"}
PathTypeInputs == {"PBR", "bogus"}
PathRequests == [sourceDevice : {"cxl-dev-001", "ghost"},
                 targetDevice : {"cxl-dev-002", "ghost"},
                 pathType : PathTypeInputs,
                 qos : {"bronze"}]
NoPathReq == [sourceDevice |-> "", targetDevice |-> "", pathType |-> "",
              qos |-> ""]
\* a QoSConfig, by its priority
PolicyNames == {"", "qos-a"}
PolicyInputs ==
  {[name |-> "", match |-> "device", targetID |-> "cxl-dev-001",
    qos |-> "gold", enabled |-> TRUE],
   [name |-> "qos-a", match |-> "rack", targetID |-> "cxl-dev-001",
    qos |-> "gold", enabled |-> TRUE],
   [name |-> "qos-a", match |-> "device", targetID |-> "cxl-dev-001",
    qos |-> "gold", enabled |-> TRUE],
   [name |-> "qos-a", match |-> "path", targetID |-> "path-0001",
    qos |-> "gold", enabled |-> TRUE],
   [name |-> "qos-a", match |-> "path", targetID |-> "path-0001",
    qos |-> "gold", enabled |-> FALSE]}
NoPolicy == [name |-> "", match |-> "", targetID |-> "", qos |-> "",
             enabled |-> FALSE]

\* fmt.Sprintf("path-%04d", n): the key of path number n in the path map
PathID(n) ==
  "path-" \o (IF n < 10 THEN "000" ELSE IF n < 100 THEN "00"
              ELSE IF n < 1000 THEN "0" ELSE "") \o ToString(n)

\* initializeMockDevices: every device starts active
FabInit ==
  /\ devices = [d \in FabDevices |-> [status |-> "active", lastSeen |-> 0]]
  /\ paths = EmptyMap
  /\ nextPathID = 1
  /\ policies = EmptyMap
  /\ fabRet = [op |-> "none", id |-> 0, device |-> "", status |-> "",
               req |-> NoPathReq, policy |-> NoPolicy, err |-> "none"]

\* faulty variant: the path type is stored without being validated
CreatePath_anyType(req) ==
  IF req.sourceDevice \notin DOMAIN devices
  THEN /\ fabRet' = [op |-> "CreatePath", id |-> 0, device |-> "", status |-> "",
                     req |-> req, policy |-> NoPolicy,
                     err |-> "source device not found"]
       /\ UNCHANGED <<devices, paths, nextPathID, policies>>
  ELSE IF req.targetDevice \notin DOMAIN devices
  THEN /\ fabRet' = [op |-> "CreatePath", id |-> 0, device |-> "", status |-> "",
                     req |-> req, policy |-> NoPolicy,
                     err |-> "target device not found"]
       /\ UNCHANGED <<devices, paths, nextPathID, policies>>
  ELSE /\ nextPathID' = nextPathID + 1
       /\ paths' = MapSet(paths, nextPathID,
                     [id |-> nextPathID,
                      sourceDevice |-> req.sourceDevice,
                      targetDevice |-> req.targetDevice,
                      pathType |-> req.pathType,
                      qos |-> req.qos,
                      status |-> "active",
                      createdAt |-> now])
       /\ fabRet' = [op |-> "CreatePath", id |-> nextPathID, device |-> "",
                     status |-> "", req |-> req,
                     policy |-> NoPolicy, err |-> "none"]
       /\ UNCHANGED <<devices, policies>>

\* FabricManagerService.CreatePath: the identifier is taken before the path
\* type is validated; the devices' status is not looked at
CreatePath(req) ==
  IF req.sourceDevice \notin DOMAIN devices
  THEN /\ fabRet' = [op |-> "CreatePath", id |-> 0, device |-> "", status |-> "",
                     req |-> req, policy |-> NoPolicy,
                     err |-> "source device not found"]
       /\ UNCHANGED <<devices, paths, nextPathID, policies>>
  ELSE IF req.targetDevice \notin DOMAIN devices
  THEN /\ fabRet' = [op |-> "CreatePath", id |-> 0, device |-> "", status |-> "",
                     req |-> req, policy |-> NoPolicy,
                     err |-> "target device not found"]
       /\ UNCHANGED <<devices, paths, nextPathID, policies>>
  ELSE /\ nextPathID' = nextPathID + 1
       /\ IF req.pathType \in {"PBR", "GIM", "Direct"}
          THEN /\ paths' = MapSet(paths, nextPathID,
                             [id |-> nextPathID,
                              sourceDevice |-> req.sourceDevice,
                              targetDevice |-> req.targetDevice,
                              pathType |-> req.pathType,
                              qos |-> req.qos,
                              status |-> "active",
                              createdAt |-> now])
               /\ fabRet' = [op |-> "CreatePath", id |-> nextPathID, device |-> "",
                             status |-> "", req |-> req,
                             policy |-> NoPolicy, err |-> "none"]
          ELSE /\ paths' = paths
               /\ fabRet' = [op |-> "CreatePath", id |-> 0, device |-> "",
                             status |-> "", req |-> req,
                             policy |-> NoPolicy,
                             err |-> "unsupported path_type"]
       /\ UNCHANGED <<devices, policies>>

\* faulty variant: any status string is stored on a known device
SetDeviceState_anyStatus(id, status) ==
  IF id \notin DOMAIN devices
  THEN /\ fabRet' = [op |-> "SetDeviceState", id |-> 0, device |-> id,
                     status |-> status, req |-> NoPathReq,
                     policy |-> NoPolicy,
                     err |-> "device not found"]
       /\ UNCHANGED <<devices, paths, nextPathID, policies>>
  ELSE /\ devices' = [devices EXCEPT ![id] = [status |-> status, lastSeen |-> now]]
       /\ fabRet' = [op |-> "SetDeviceState", id |-> 0, device |-> id,
                     status |-> status, req |-> NoPathReq,
                     policy |-> NoPolicy, err |-> "none"]
       /\ UNCHANGED <<paths, nextPathID, policies>>

\* faulty variant: a device that is disabled is dropped from the device map
SetDeviceState_remove(id, status) ==
  IF id \notin DOMAIN devices
  THEN /\ fabRet' = [op |-> "SetDeviceState", id |-> 0, device |-> id,
                     status |-> status, req |-> NoPathReq,
                     policy |-> NoPolicy,
                     err |-> "device not found"]
       /\ UNCHANGED <<devices, paths, nextPathID, policies>>
  ELSE IF status \in {"active", "maintenance", "disabled"}
  THEN /\ devices' = IF status = "disabled"
                     THEN MapDelete(devices, id)
                     ELSE [devices EXCEPT
                             ![id] = [status |-> status, lastSeen |-> now]]
       /\ fabRet' = [op |-> "SetDeviceState", id |-> 0, device |-> id,
                     status |-> status, req |-> NoPathReq,
                     policy |-> NoPolicy, err |-> "none"]
       /\ UNCHANGED <<paths, nextPathID, policies>>
  ELSE /\ fabRet' = [op |-> "SetDeviceState", id |-> 0, device |-> id,
                     status |-> status, req |-> NoPathReq,
                     policy |-> NoPolicy,
                     err |-> "invalid status"]
       /\ UNCHANGED <<devices, paths, nextPathID, policies>>

\* FabricManagerService.SetDeviceState: the paths are not looked at
SetDeviceState(id, status) ==
  IF id \notin DOMAIN devices
  THEN /\ fabRet' = [op |-> "SetDeviceState", id |-> 0, device |-> id,
                     status |-> status, req |-> NoPathReq,
                     policy |-> NoPolicy,
                     err |-> "device not found"]
       /\ UNCHANGED <<devices, paths, nextPathID, policies>>
  ELSE IF status \in {"active", "maintenance", "disabled"}
  THEN /\ devices' = [devices EXCEPT ![id] = [status |-> status, lastSeen |-> now]]
       /\ fabRet' = [op |-> "SetDeviceState", id |-> 0, device |-> id,
                     status |-> status, req |-> NoPathReq,
                     policy |-> NoPolicy, err |-> "none"]
       /\ UNCHANGED <<paths, nextPathID, policies>>
  ELSE /\ fabRet' = [op |-> "SetDeviceState", id |-> 0, device |-> id,
                     status |-> status, req |-> NoPathReq,
                     policy |-> NoPolicy,
                     err |-> "invalid status"]
       /\ UNCHANGED <<devices, paths, nextPathID, policies>>

DoCreatePath ==
  /\ nextPathID <= MaxPaths
  /\ \E req \in PathRequests : CreatePath(req)
DoSetDeviceState ==
  \E id \in DeviceInputs, status \in StatusInputs : SetDeviceState(id, status)


\* faulty variant: the policy is applied whether or not it is enabled
AddPolicy_ignoreEnabled(p) ==
  IF p.name = ""
  THEN /\ fabRet' = [op |-> "AddPolicy", id |-> 0, device |-> "", status |-> "",
                     req |-> NoPathReq, policy |-> p,
                     err |-> "policy name required"]
       /\ UNCHANGED <<devices, paths, nextPathID, policies>>
  ELSE IF p.match # "device" /\ p.match # "path"
  THEN /\ fabRet' = [op |-> "AddPolicy", id |-> 0, device |-> "", status |-> "",
                     req |-> NoPathReq, policy |-> p,
                     err |-> "match must be 'device' or 'path'"]
       /\ UNCHANGED <<devices, paths, nextPathID, policies>>
  ELSE /\ policies' = MapSet(policies, p.name,
                        [name |-> p.name, match |-> p.match,
                         targetID |-> p.targetID, qos |-> p.qos,
                         enabled |-> p.enabled, createdAt |-> now])
       /\ paths' = IF p.match = "path"
                   THEN [n \in DOMAIN paths |->
                           IF PathID(n) = p.targetID
                           THEN [paths[n] EXCEPT !.qos = p.qos]
                           ELSE paths[n]]
                   ELSE paths
       /\ devices' = IF p.match = "device" /\ p.targetID \in DOMAIN devices
                     THEN [devices EXCEPT ![p.targetID].lastSeen = now]
                     ELSE devices
       /\ fabRet' = [op |-> "AddPolicy", id |-> 0, device |-> "", status |-> "",
                     req |-> NoPathReq, policy |-> p, err |-> "none"]
       /\ UNCHANGED nextPathID

\* FabricManagerService.AddPolicy: the policy is stored under its name, then
\* applied to the path or device it targets, if that exists
AddPolicy(p) ==
  IF p.name = ""
  THEN /\ fabRet' = [op |-> "AddPolicy", id |-> 0, device |-> "", status |-> "",
                     req |-> NoPathReq, policy |-> p,
                     err |-> "policy name required"]
       /\ UNCHANGED <<devices, paths, nextPathID, policies>>
  ELSE IF p.match # "device" /\ p.match # "path"
  THEN /\ fabRet' = [op |-> "AddPolicy", id |-> 0, device |-> "", status |-> "",
                     req |-> NoPathReq, policy |-> p,
                     err |-> "match must be 'device' or 'path'"]
       /\ UNCHANGED <<devices, paths, nextPathID, policies>>
  ELSE /\ policies' = MapSet(policies, p.name,
                        [name |-> p.name, match |-> p.match,
                         targetID |-> p.targetID, qos |-> p.qos,
                         enabled |-> p.enabled, createdAt |-> now])
       /\ paths' = IF p.enabled /\ p.match = "path"
                   THEN [n \in DOMAIN paths |->
                           IF PathID(n) = p.targetID
                           THEN [paths[n] EXCEPT !.qos = p.qos]
                           ELSE paths[n]]
                   ELSE paths
       /\ devices' = IF p.enabled /\ p.match = "device"
                        /\ p.targetID \in DOMAIN devices
                     THEN [devices EXCEPT ![p.targetID].lastSeen = now]
                     ELSE devices
       /\ fabRet' = [op |-> "AddPolicy", id |-> 0, device |-> "", status |-> "",
                     req |-> NoPathReq, policy |-> p, err |-> "none"]
       /\ UNCHANGED nextPathID

\* faulty variant: the path or device the policy targets is removed with it
DeletePolicy_cascade(name) ==
  IF name \notin DOMAIN policies
  THEN /\ fabRet' = [op |-> "DeletePolicy", id |-> 0, device |-> "", status |-> "",
                     req |-> NoPathReq, policy |-> [NoPolicy EXCEPT !.name = name],
                     err |-> "policy not found"]
       /\ UNCHANGED <<devices, paths, nextPathID, policies>>
  ELSE /\ policies' = MapDelete(policies, name)
       /\ paths' = [n \in {m \in DOMAIN paths : PathID(m) # policies[name].targetID}
                      |-> paths[n]]
       /\ devices' = [d \in (DOMAIN devices) \ {policies[name].targetID}
                        |-> devices[d]]
       /\ fabRet' = [op |-> "DeletePolicy", id |-> 0, device |-> "", status |-> "",
                     req |-> NoPathReq, policy |-> [NoPolicy EXCEPT !.name = name],
                     err |-> "none"]
       /\ UNCHANGED nextPathID

\* FabricManagerService.DeletePolicy
DeletePolicy(name) ==
  IF name \notin DOMAIN policies
  THEN /\ fabRet' = [op |-> "DeletePolicy", id |-> 0, device |-> "", status |-> "",
                     req |-> NoPathReq, policy |-> [NoPolicy EXCEPT !.name = name],
                     err |-> "policy not found"]
       /\ UNCHANGED <<devices, paths, nextPathID, policies>>
  ELSE /\ policies' = MapDelete(policies, name)
       /\ fabRet' = [op |-> "DeletePolicy", id |-> 0, device |-> "", status |-> "",
                     req |-> NoPathReq, policy |-> [NoPolicy EXCEPT !.name = name],
                     err |-> "none"]
       /\ UNCHANGED <<devices, paths, nextPathID>>

DoAddPolicy == \E p \in PolicyInputs : AddPolicy(p)
DoDeletePolicy == \E name \in {"qos-a", "qos-z"} : DeletePolicy(name)

\* ============================================ memqosd: goroutines and mutex
Procs == 1..MaxProcs
Unlocked == [writer |-> 0, readers |-> {}]
ReaderOps == {"GetTelemetry", "ListAllocations"}
NoCall == [op |-> "none", req |-> NoAllocReq, id |-> 0]

LockInit ==
  /\ ffm_pc = [p \in Procs |-> "idle"]
  /\ ffm_mutex = Unlocked
  /\ ffm_call = [p \in Procs |-> NoCall]

\* handleAllocate: a request arrives and its goroutine calls Allocate
CallAllocate(p, req) ==
  /\ ffm_pc[p] = "idle"
  /\ ffm_nextID + Cardinality({q \in Procs : ffm_call[q].op = "Allocate"}) <= MaxAllocs
  /\ ffm_pc' = [ffm_pc EXCEPT ![p] = "Lock"]
  /\ ffm_call' = [ffm_call EXCEPT ![p] = [op |-> "Allocate", req |-> req, id |-> 0]]
  /\ UNCHANGED <<ffm_mutex, memVars>>

\* Allocate from s.mutex.Lock() on: with a ticket to verify, the goroutine
\* sends the GET to attestd and waits for the answer, the deferred Unlock
\* still pending; otherwise it runs to its return
AllocateLock(p) ==
  /\ ffm_pc[p] = "Lock"
  /\ ffm_mutex = Unlocked
  /\ LET req == ffm_call[p].req
     IN IF req.attestationRequired /\ req.attestationTicket # 0
        THEN /\ ffm_mutex' = [ffm_mutex EXCEPT !.writer = p]
             /\ ffm_pc' = [ffm_pc EXCEPT ![p] = "verifyAttestation"]
             /\ UNCHANGED <<ffm_call, memVars>>
        ELSE /\ FFM_Allocate(req, "unused")
             /\ ffm_pc' = [ffm_pc EXCEPT ![p] = "idle"]
             /\ ffm_call' = [ffm_call EXCEPT ![p] = NoCall]
             /\ UNCHANGED ffm_mutex

\* http.Get returns (an error, or attestd's answer) and Allocate runs to its
\* return, where the deferred Unlock happens
VerifyReturn(p, resp) ==
  /\ ffm_pc[p] = "verifyAttestation"
  /\ FFM_Allocate(ffm_call[p].req, resp)
  /\ ffm_mutex' = Unlocked
  /\ ffm_pc' = [ffm_pc EXCEPT ![p] = "idle"]
  /\ ffm_call' = [ffm_call EXCEPT ![p] = NoCall]

\* a request arrives and its goroutine calls GetTelemetry or ListAllocations
CallReader(p, op, id) ==
  /\ ffm_pc[p] = "idle"
  /\ ffm_pc' = [ffm_pc EXCEPT ![p] = "RLock"]
  /\ ffm_call' = [ffm_call EXCEPT ![p] = [op |-> op, req |-> NoAllocReq, id |-> id]]
  /\ UNCHANGED <<ffm_mutex, memVars>>

\* s.mutex.RLock(): waits while a writer holds the mutex
ReaderRLock(p) ==
  /\ ffm_pc[p] = "RLock"
  /\ ffm_mutex.writer = 0
  /\ ffm_mutex' = [ffm_mutex EXCEPT !.readers = ffm_mutex.readers \cup {p}]
  /\ ffm_pc' = [ffm_pc EXCEPT ![p] = "read"]
  /\ UNCHANGED <<ffm_call, memVars>>

\* the body of GetTelemetry / ListAllocations and the deferred RUnlock
ReaderReturn(p) ==
  /\ ffm_pc[p] = "read"
  /\ memRet' = [op |-> ffm_call[p].op, id |-> ffm_call[p].id,
                err |-> IF ffm_call[p].op = "GetTelemetry"
                           /\ ffm_call[p].id \notin DOMAIN allocations
                        THEN "not found" ELSE "none",
                req |-> NoAllocReq, floor |-> 0, resp |-> "unused"]
  /\ ffm_mutex' = [ffm_mutex EXCEPT !.readers = ffm_mutex.readers \ {p}]
  /\ ffm_pc' = [ffm_pc EXCEPT ![p] = "idle"]
  /\ ffm_call' = [ffm_call EXCEPT ![p] = NoCall]
  /\ UNCHANGED <<allocations, ffm_nextID, metrics>>

\* ======================================= memqosd with attestd as verifier
\* what GET /v1/attest/<ticket> comes back with when attestd serves it: 404
\* for an unknown ticket, else the valid field GetAttestation reports
AttestdResponse(ticket) ==
  IF ticket \notin DOMAIN attestations THEN "404"
  ELSE IF Expire(attestations, ticket, now)[ticket].valid THEN "valid"
  ELSE "invalid"

\* Allocate, its verification served by attestd's GetAttestation
AllocateViaAttestd(req) ==
  /\ FFM_Allocate(req, AttestdResponse(req.attestationTicket))
  /\ IF req.attestationRequired /\ req.attestationTicket # 0
     THEN GetAttestation(req.attestationTicket)
     ELSE UNCHANGED attVars

DoAllocateViaAttestd ==
  /\ ffm_nextID <= MaxAllocs
  /\ \E req \in AllocationRequests : AllocateViaAttestd(req)

\* ===================================================== security service
\* the entries logAuditEvent keeps
AuditLogCap == 1000
\* the audited calls SpecSec admits
MaxAudited == 2
\* pqc.GenerateKeyID(keyPair.PublicKey): an id derived from the fresh key
KeyIDs == {"key-a", "key-b"}
\* the ids the GET /keys/{id} handler receives: any string
KeyInputs == KeyIDs \cup {"key-x"}
DefaultPolicies == {"default-encryption", "default-access-control"}
\* fmt.Sprintf("audit-%d", n)
AuditID(n) == "audit-" \o ToString(n)
\* fmt.Sprintf("policy-%d", n)
SecPolicyID(n) == "policy-" \o ToString(n)

SecIdle == [op |-> "none", at |-> "idle", result |-> "none"]

\* NewSecurityService
SecInit ==
  /\ sec_pc = [p \in Procs |-> SecIdle]
  /\ sec_mutex = Unlocked
  /\ pqcKeys = {}
  /\ sec_policies = DefaultPolicies
  /\ auditLog = <<>>

\* the handlers of POST /keys, GET /keys/{id} and POST /policies: the
\* goroutine of a request enters the service call, at its Lock or RLock
SecCall(p, op) ==
  /\ sec_pc[p] = SecIdle
  /\ op \in {"GeneratePQCKey", "GetPQCKey", "CreatePolicy"}
  /\ sec_pc' = [sec_pc EXCEPT ![p] = [op |-> op, at |-> "Lock", result |-> "none"]]
  /\ UNCHANGED <<sec_mutex, pqcKeys, sec_policies, auditLog>>

\* GeneratePQCKey from s.mutex.Lock() to its call of logAuditEvent, which
\* it makes on both branches with the deferred Unlock still pending
GeneratePQCKey(p, ok, keyID) ==
  /\ sec_pc[p].op = "GeneratePQCKey" /\ sec_pc[p].at = "Lock"
  /\ sec_mutex = Unlocked
  /\ sec_mutex' = [sec_mutex EXCEPT !.writer = p]
  /\ pqcKeys' = IF ok THEN pqcKeys \cup {keyID} ELSE pqcKeys
  /\ sec_pc' = [sec_pc EXCEPT ![p] =
                  [op |-> "GeneratePQCKey", at |-> "logAuditEvent",
                   result |-> IF ok THEN "success" ELSE "failure"]]
  /\ UNCHANGED <<sec_policies, auditLog>>

\* GetPQCKey from s.mutex.RLock(): an unknown key returns at once, a known
\* one goes to logAuditEvent with the deferred RUnlock still pending
GetPQCKey(p, keyID) ==
  /\ sec_pc[p].op = "GetPQCKey" /\ sec_pc[p].at = "Lock"
  /\ sec_mutex.writer = 0
  /\ IF keyID \notin pqcKeys
     THEN /\ sec_pc' = [sec_pc EXCEPT ![p] = SecIdle]
          /\ UNCHANGED sec_mutex
     ELSE /\ sec_mutex' = [sec_mutex EXCEPT !.readers = sec_mutex.readers \cup {p}]
          /\ sec_pc' = [sec_pc EXCEPT ![p] =
                          [op |-> "GetPQCKey", at |-> "logAuditEvent",
                           result |-> "success"]]
  /\ UNCHANGED <<pqcKeys, sec_policies, auditLog>>

\* CreatePolicy from s.mutex.Lock() to its call of logAuditEvent
CreatePolicy(p) ==
  /\ sec_pc[p].op = "CreatePolicy" /\ sec_pc[p].at = "Lock"
  /\ sec_mutex = Unlocked
  /\ sec_mutex' = [sec_mutex EXCEPT !.writer = p]
  /\ sec_policies' = sec_policies \cup {SecPolicyID(Cardinality(sec_policies) + 1)}
  /\ sec_pc' = [sec_pc EXCEPT ![p] =
                  [op |-> "CreatePolicy", at |-> "logAuditEvent",
                   result |-> "success"]]
  /\ UNCHANGED <<pqcKeys, auditLog>>

\* CreateEnclave up to its call of logAuditEvent: it takes no lock of the
\* security service, and the confidential-compute service's answer is an input
CreateEnclave(p, ok) ==
  /\ sec_pc[p] = SecIdle
  /\ sec_pc' = [sec_pc EXCEPT ![p] =
                  [op |-> "CreateEnclave", at |-> "logAuditEvent",
                   result |-> IF ok THEN "success" ELSE "failure"]]
  /\ UNCHANGED <<sec_mutex, pqcKeys, sec_policies, auditLog>>

\* the audit events of the four calls
AuditEvent(op) ==
  CASE op = "GeneratePQCKey" -> "key_generation"
    [] op = "GetPQCKey" -> "key_access"
    [] op = "CreatePolicy" -> "policy_creation"
    [] OTHER -> "enclave_creation"

\* the slice logAuditEvent leaves: the new entry appended, then the last
\* AuditLogCap entries
Appended(log, entry) ==
  LET all == Append(log, entry)
  IN IF Len(all) > AuditLogCap
     THEN SubSeq(all, Len(all) - AuditLogCap + 1, Len(all))
     ELSE all

\* logAuditEvent from its s.mutex.Lock() to its return, and the caller's
\* return after it with the caller's deferred unlock
logAuditEvent(p) ==
  /\ sec_pc[p].at = "logAuditEvent"
  /\ sec_mutex = Unlocked
  /\ auditLog' = Appended(auditLog,
                   [id |-> AuditID(Len(auditLog) + 1),
                    event |-> AuditEvent(sec_pc[p].op),
                    result |-> sec_pc[p].result])
  /\ sec_pc' = [sec_pc EXCEPT ![p] = SecIdle]
  /\ sec_mutex' = [writer |-> IF sec_mutex.writer = p THEN 0 ELSE sec_mutex.writer,
                   readers |-> sec_mutex.readers \ {p}]
  /\ UNCHANGED <<pqcKeys, sec_policies>>

\* ================================================================ compatd
\* the identifiers compatd hands out
MaxCompatIDs == 3
\* fmt.Sprintf("trans-%d", n)
TransID(n) == "trans-" \o ToString(n)
\* fmt.Sprintf("profile-%d", n)
ProfileID(n) == "profile-" \o ToString(n)
TransIDs == {TransID(n) : n \in 1..MaxCompatIDs}
DefaultProfiles == {"x86-to-riscv", "x64-to-riscv", "arm64-to-riscv"}
\* the source_arch and target_arch of the requests
TranslationRequests ==
  {[sourceArch |-> "x86", targetArch |-> "riscv64"],
   [sourceArch |-> "arm64", targetArch |-> "riscv64"]}
\* fmt.Sprintf("%s-%s", req.SourceArch, req.TargetArch)
CacheKey(req) == req.sourceArch \o "-" \o req.targetArch
\* nobody holds CompatibilityService.mutex
Free == "free"

\* NewCompatibilityService
CmpInit ==
  /\ translations = EmptyMap
  /\ profiles = DefaultProfiles
  /\ jitCache = EmptyMap
  /\ cmp_nextID = 1
  /\ cmp_tasks = EmptyMap
  /\ cmp_mutex = Free

\* CompatibilityService.CreateProfile, from Lock to the deferred Unlock
CreateProfile ==
  /\ cmp_mutex = Free
  /\ cmp_nextID <= MaxCompatIDs
  /\ profiles' = profiles \cup {ProfileID(cmp_nextID)}
  /\ cmp_nextID' = cmp_nextID + 1
  /\ UNCHANGED <<translations, jitCache, cmp_tasks, cmp_mutex>>

\* CompatibilityService.TranslateBinary, from Lock to the deferred Unlock:
\* the response is stored as pending and the goroutine is started
TranslateBinary(req) ==
  /\ cmp_mutex = Free
  /\ cmp_nextID <= MaxCompatIDs
  /\ LET translationID == TransID(cmp_nextID)
     IN /\ translations' = MapSet(translations, translationID,
                             [id |-> translationID, status |-> "pending",
                              translatedPath |-> "", performance |-> 0,
                              warnings |-> 0])
        /\ cmp_tasks' = MapSet(cmp_tasks, translationID,
                               [pc |-> "Sleep", req |-> req])
  /\ cmp_nextID' = cmp_nextID + 1
  /\ UNCHANGED <<profiles, jitCache, cmp_mutex>>

\* simulateTranslation: time.Sleep returns
TaskWake(id) ==
  /\ id \in DOMAIN cmp_tasks
  /\ cmp_tasks[id].pc = "Sleep"
  /\ cmp_tasks' = [cmp_tasks EXCEPT ![id].pc = "Lock"]
  /\ UNCHANGED <<translations, profiles, jitCache, cmp_nextID, cmp_mutex>>

\* faulty variant: the goroutine goes on without taking the mutex
TaskLock_noLock(id) ==
  /\ id \in DOMAIN cmp_tasks
  /\ cmp_tasks[id].pc = "Lock"
  /\ cmp_tasks' = [cmp_tasks EXCEPT ![id].pc = "locked"]
  /\ UNCHANGED <<translations, profiles, jitCache, cmp_nextID, cmp_mutex>>

\* simulateTranslation: s.mutex.Lock()
TaskLock(id) ==
  /\ id \in DOMAIN cmp_tasks
  /\ cmp_tasks[id].pc = "Lock"
  /\ cmp_mutex = Free
  /\ cmp_mutex' = id
  /\ cmp_tasks' = [cmp_tasks EXCEPT ![id].pc = "locked"]
  /\ UNCHANGED <<translations, profiles, jitCache, cmp_nextID>>

\* simulateTranslation after the Lock: the stored response is completed, the
\* JIT cache entry written, and the goroutine ends with the deferred Unlock
TaskComplete(id) ==
  /\ id \in DOMAIN cmp_tasks
  /\ cmp_tasks[id].pc = "locked"
  /\ IF id \notin DOMAIN translations
     THEN UNCHANGED <<translations, jitCache>>
     ELSE LET path == "/tmp/translated_" \o id
              cacheKey == CacheKey(cmp_tasks[id].req)
          IN /\ translations' = [translations EXCEPT
                                   ![id].status = "completed",
                                   ![id].translatedPath = path,
                                   ![id].performance = 85,
                                   ![id].warnings = 2]
             /\ jitCache' = MapSet(jitCache, cacheKey,
                              [id |-> cacheKey, sourceHash |-> "hash_" \o id,
                               targetArch |-> cmp_tasks[id].req.targetArch,
                               compiledPath |-> path, hitCount |-> 1])
  /\ cmp_mutex' = Free
  /\ cmp_tasks' = MapDelete(cmp_tasks, id)
  /\ UNCHANGED <<profiles, cmp_nextID>>

\* ============================================================ specifications
\* the allocator alone
InitDRF == DRFInit /\ ClockInit /\ AttInit /\ MemInit
  /\ LifeIdle /\ FabInit /\ LockInit /\ CalIdle /\ SecInit /\ CmpInit
NextDRF ==
  \/ DoAllocate /\ UNCHANGED <<clockVars, attVars, memVars,
                 lifeVars, fabVars, lockVars, calVars, secVars, cmpVars>>
  \/ DoRelease /\ UNCHANGED <<clockVars, attVars, memVars,
                 lifeVars, fabVars, lockVars, calVars, secVars, cmpVars>>
SpecDRF == InitDRF /\ [][NextDRF]_vars

\* a DRFScheduler that is constructed and never called
DRFIdle ==
  /\ capacity = [lanes |-> 0, gbps |-> 0]
  /\ alloc = EmptyMap
  /\ drfRet = [op |-> "new", id |-> 0, req |-> NoReq, granted |-> Zero,
               floorMet |-> FALSE, error |-> "none"]

\* attestd, or fabmand's tickets, under a moving clock: the two daemons share
\* no state, so a behaviour exercises one of them
InitAttest == DRFIdle /\ ClockInit /\ AttInit /\ MemInit
  /\ LifeIdle /\ FabInit /\ LockInit /\ CalIdle /\ SecInit /\ CmpInit
NextAttest ==
  \/ Advance /\ UNCHANGED <<drfVars, attVars, memVars,
                 lifeVars, fabVars, lockVars, calVars, secVars, cmpVars>>
  \/ /\ fab_attestations = EmptyMap
     /\ DoAttestDevice
     /\ UNCHANGED <<drfVars, clockVars, memVars,
                 lifeVars, fabVars, lockVars, calVars, secVars, cmpVars>>
  \/ /\ fab_attestations = EmptyMap
     /\ DoGetAttestation
     /\ UNCHANGED <<drfVars, clockVars, memVars,
                 lifeVars, fabVars, lockVars, calVars, secVars, cmpVars>>
  \/ /\ attestations = EmptyMap
     /\ DoFabAttestDevice
     /\ UNCHANGED <<drfVars, clockVars, memVars,
                 lifeVars, fabVars, lockVars, calVars, secVars, cmpVars>>
  \/ /\ attestations = EmptyMap
     /\ DoVerifyAttestation
     /\ UNCHANGED <<drfVars, clockVars, memVars,
                 lifeVars, fabVars, lockVars, calVars, secVars, cmpVars>>
SpecAttest == InitAttest /\ [][NextAttest]_vars

\* memqosd, with the verifier's answers as inputs
InitMem == DRFIdle /\ ClockInit /\ AttInit /\ MemInit
  /\ LifeIdle /\ FabInit /\ LockInit /\ CalIdle /\ SecInit /\ CmpInit
NextMem ==
  \/ DoFFMAllocate /\ UNCHANGED <<drfVars, clockVars, attVars,
                 lifeVars, fabVars, lockVars, calVars, secVars, cmpVars>>
  \/ DoAdjustBandwidth /\ UNCHANGED <<drfVars, clockVars, attVars,
                 lifeVars, fabVars, lockVars, calVars, secVars, cmpVars>>
SpecMem == InitMem /\ [][NextMem]_vars

\* the lifecycle supervisor over the allocator and the calibration engine
DRFDevice ==
  /\ capacity = DeviceCapacity
  /\ alloc = EmptyMap
  /\ drfRet = [op |-> "new", id |-> 0, req |-> NoReq, granted |-> Zero,
               floorMet |-> FALSE, error |-> "none"]
LifeFrame == UNCHANGED <<clockVars, attVars, memVars, fabVars, lockVars, calVars, secVars, cmpVars>>
NextLifeOf(R) ==
  \/ (\E r \in R, spec \in ResourceSpecs : Submit(r, spec)) /\ LifeFrame
  \/ (\E r \in R, passes \in BOOLEAN : AttestationCheck(r, passes)) /\ LifeFrame
  \/ (\E r \in R, ber \in BERInputs, profile \in ProfileInputs :
        Admit(r, ber, profile)) /\ LifeFrame
  \/ (\E r \in R : Drift(r)) /\ LifeFrame
  \/ (\E r \in R, recovered \in BOOLEAN : Retry(r, recovered)) /\ LifeFrame
  \/ (\E r \in R : Escalate(r)) /\ LifeFrame
  \/ (\E r \in R : DeviceDrop(r)) /\ LifeFrame
  \/ (\E r \in R : Teardown(r)) /\ LifeFrame
  \/ (\E r \in R : Finalize(r)) /\ LifeFrame
  \/ (\E r \in R : Tick(r)) /\ LifeFrame

\* every identifier supervised, under a short escalation timeout
InitLife == DRFDevice /\ ClockInit /\ AttInit /\ MemInit
  /\ LifeInit(ShortEscalationTimeoutMs) /\ FabInit /\ LockInit /\ CalIdle /\ SecInit /\ CmpInit
NextLife == NextLifeOf(Ids)
SpecLife == InitLife /\ [][NextLife]_vars

\* one resource through its drift events, under the default escalation timeout
InitBackoff == DRFDevice /\ ClockInit /\ AttInit /\ MemInit
  /\ LifeInit(DefaultEscalationTimeoutMs) /\ FabInit /\ LockInit /\ CalIdle /\ SecInit /\ CmpInit
NextBackoff == NextLifeOf({1})
SpecBackoff == InitBackoff /\ [][NextBackoff]_vars

\* memqosd's allocations and their migration between latency classes
InitMemTier == DRFIdle /\ ClockInit /\ AttInit /\ MemInit
  /\ LifeIdle /\ FabInit /\ LockInit /\ CalIdle /\ SecInit /\ CmpInit
MemTierFrame ==
  UNCHANGED <<drfVars, clockVars, attVars, lifeVars, fabVars, lockVars, calVars, secVars, cmpVars>>
NextMemTier ==
  \/ DoFFMAllocateTier /\ MemTierFrame
  \/ DoAdjustLatencyClass /\ MemTierFrame
  \/ DoAdjustBandwidth /\ MemTierFrame
SpecMemTier == InitMemTier /\ [][NextMemTier]_vars

\* fabmand's inventory under a moving clock; every request that is sent is
\* eventually served
InitFab == DRFIdle /\ ClockInit /\ AttInit /\ MemInit
  /\ LifeIdle /\ FabInit /\ LockInit /\ CalIdle /\ SecInit /\ CmpInit
FabAdvance ==
  Advance /\ UNCHANGED <<drfVars, attVars, memVars, lifeVars, fabVars, lockVars, calVars, secVars, cmpVars>>
FabCreatePath ==
  DoCreatePath /\ UNCHANGED <<drfVars, clockVars, attVars, memVars, lifeVars, lockVars, calVars, secVars, cmpVars>>
FabSetDeviceState ==
  DoSetDeviceState
    /\ UNCHANGED <<drfVars, clockVars, attVars, memVars, lifeVars, lockVars, calVars, secVars, cmpVars>>
NextFab == FabAdvance \/ FabCreatePath \/ FabSetDeviceState
SpecFabLive ==
  /\ InitFab /\ [][NextFab]_vars
  /\ WF_vars(FabAdvance) /\ WF_vars(FabCreatePath) /\ WF_vars(FabSetDeviceState)

\* fabmand's inventory calls in any order, under a moving clock
FabTick ==
  /\ advances < MaxAdvances
  /\ now' = now + 1
  /\ advances' = advances + 1
  /\ UNCHANGED <<drfVars, attVars, memVars, lifeVars, fabVars, lockVars, calVars, secVars, cmpVars>>
FabFrame == UNCHANGED <<drfVars, clockVars, memVars, lifeVars, lockVars, calVars, secVars, cmpVars>>
FabAddPolicy == DoAddPolicy /\ FabFrame /\ UNCHANGED attVars
FabDeletePolicy == DoDeletePolicy /\ FabFrame /\ UNCHANGED attVars
NextFabInv ==
  \/ FabTick
  \/ FabCreatePath
  \/ FabSetDeviceState
  \/ FabAddPolicy
  \/ FabDeletePolicy
SpecFab == InitFab /\ [][NextFabInv]_vars

\* every inventory operation of fabmand, at one instant
FabAttestDevice ==
  /\ fab_attestations = EmptyMap
  /\ DoFabAttestDevice /\ FabFrame /\ UNCHANGED fabVars
NextFabOps ==
  \/ FabCreatePath
  \/ FabSetDeviceState
  \/ FabAddPolicy
  \/ FabDeletePolicy
  \/ FabAttestDevice
SpecFabOps == InitFab /\ [][NextFabOps]_vars

\* memqosd's goroutines, with the verifier's answers as inputs
MemLockFrame ==
  UNCHANGED <<drfVars, clockVars, attVars, lifeVars, fabVars, calVars, secVars, cmpVars>>
InitMemLock == DRFIdle /\ ClockInit /\ AttInit /\ MemInit
  /\ LifeIdle /\ FabInit /\ LockInit /\ CalIdle /\ SecInit /\ CmpInit
NextMemLock ==
  \/ (\E p \in Procs, req \in AllocationRequests : CallAllocate(p, req))
       /\ MemLockFrame
  \/ (\E p \in Procs : AllocateLock(p)) /\ MemLockFrame
  \/ (\E p \in Procs, resp \in VerifierResponses : VerifyReturn(p, resp))
       /\ MemLockFrame
  \/ (\E p \in Procs, op \in ReaderOps, id \in 1..MaxAllocs : CallReader(p, op, id))
       /\ MemLockFrame
  \/ (\E p \in Procs : ReaderRLock(p)) /\ MemLockFrame
  \/ (\E p \in Procs : ReaderReturn(p)) /\ MemLockFrame
SpecMemLock == InitMemLock /\ [][NextMemLock]_vars

\* memqosd's Allocate goroutines alone, with the verifier's answers as inputs
NextMemAlloc ==
  \/ (\E p \in Procs, req \in AllocationRequests : CallAllocate(p, req))
       /\ MemLockFrame
  \/ (\E p \in Procs : AllocateLock(p)) /\ MemLockFrame
  \/ (\E p \in Procs, resp \in VerifierResponses : VerifyReturn(p, resp))
       /\ MemLockFrame
SpecMemAlloc == InitMemLock /\ [][NextMemAlloc]_vars

\* memqosd and attestd, which has issued at most one ticket, under a moving clock
InitMemAtt == DRFIdle /\ ClockInit /\ AttInit /\ MemInit
  /\ LifeIdle /\ FabInit /\ LockInit /\ CalIdle /\ SecInit /\ CmpInit
NextMemAtt ==
  \/ Advance /\ UNCHANGED <<drfVars, attVars, memVars, lifeVars, fabVars, lockVars, calVars, secVars, cmpVars>>
  \/ /\ attestations = EmptyMap
     /\ DoAttestDevice
     /\ UNCHANGED <<drfVars, clockVars, memVars, lifeVars, fabVars, lockVars, calVars, secVars, cmpVars>>
  \/ DoAllocateViaAttestd
       /\ UNCHANGED <<drfVars, clockVars, lifeVars, fabVars, lockVars, calVars, secVars, cmpVars>>
  \/ DoAdjustBandwidth
       /\ UNCHANGED <<drfVars, clockVars, attVars, lifeVars, fabVars, lockVars, calVars, secVars, cmpVars>>
SpecMemAtt == InitMemAtt /\ [][NextMemAtt]_vars

\* the calibration service under concurrent requests
CalFrame ==
  UNCHANGED <<drfVars, clockVars, attVars, memVars, lifeVars, fabVars, lockVars,
              secVars, cmpVars>>
InitCal == DRFIdle /\ ClockInit /\ AttInit /\ MemInit
  /\ LifeIdle /\ FabInit /\ LockInit /\ CalIdle /\ SecInit /\ CmpInit
NextCal ==
  \/ (\E p \in CalCalls, req \in CalRequests, draw \in Draws :
        CalCall(p, req, draw)) /\ CalFrame
  \/ (\E p \in CalCalls, noise \in BOOLEAN, draw \in Draws :
        CalIterate(p, noise, draw)) /\ CalFrame
  \/ (\E p \in CalCalls : CalReturn(p)) /\ CalFrame
  \/ (\E p \in CalCalls : CalForget(p)) /\ CalFrame
SpecCal == InitCal /\ [][NextCal]_vars

\* the security service's request goroutines; the enclave calls stop once
\* MaxAudited entries are logged
SecFrame ==
  UNCHANGED <<drfVars, clockVars, attVars, memVars, lifeVars, fabVars, lockVars,
              calVars, cmpVars>>
InitSec == DRFIdle /\ ClockInit /\ AttInit /\ MemInit
  /\ LifeIdle /\ FabInit /\ LockInit /\ CalIdle /\ SecInit /\ CmpInit
NextSec ==
  \/ (\E p \in Procs, op \in {"GeneratePQCKey", "GetPQCKey", "CreatePolicy"} :
        SecCall(p, op)) /\ SecFrame
  \/ (\E p \in Procs, ok \in BOOLEAN, keyID \in KeyIDs : GeneratePQCKey(p, ok, keyID))
       /\ SecFrame
  \/ (\E p \in Procs, keyID \in KeyInputs : GetPQCKey(p, keyID)) /\ SecFrame
  \/ (\E p \in Procs : CreatePolicy(p)) /\ SecFrame
  \/ (\E p \in Procs, ok \in BOOLEAN :
        Len(auditLog) < MaxAudited /\ CreateEnclave(p, ok)) /\ SecFrame
  \/ (\E p \in Procs : logAuditEvent(p)) /\ SecFrame
SpecSec == InitSec /\ [][NextSec]_vars

\* the security service serving enclave creations only, all of them granted
NextAudit ==
  \/ (\E p \in Procs : CreateEnclave(p, TRUE)) /\ SecFrame
  \/ (\E p \in Procs : logAuditEvent(p)) /\ SecFrame
SpecAudit == InitSec /\ [][NextAudit]_vars

\* compatd: the request handlers and the translation goroutines
CmpFrame ==
  UNCHANGED <<drfVars, clockVars, attVars, memVars, lifeVars, fabVars, lockVars,
              calVars, secVars>>
TaskStep(id) == (TaskWake(id) \/ TaskLock(id) \/ TaskComplete(id)) /\ CmpFrame
NextCompat ==
  \/ CreateProfile /\ CmpFrame
  \/ (\E req \in TranslationRequests : TranslateBinary(req)) /\ CmpFrame
  \/ (\E id \in TransIDs : TaskWake(id)) /\ CmpFrame
  \/ (\E id \in TransIDs : TaskLock(id)) /\ CmpFrame
  \/ (\E id \in TransIDs : TaskComplete(id)) /\ CmpFrame
\* every started goroutine is scheduled
SpecCompatLive == InitSec /\ [][NextCompat]_vars
  /\ \A id \in TransIDs : WF_vars(TaskStep(id))

\* ================================================================ claims
\* ------------------------------------------------------- the allocator
\* what the identifiers hold in one pool, summed
Held(m, field) == SumField(m, field, MaxIds)
HeldBy(m, id, field) == IF id \in DOMAIN m THEN m[id][field] ELSE 0
\* the request, granted in full, keeps both pools within capacity
FitsInFull(req) ==
  /\ Held(alloc, "lanes") + req.lanes <= capacity.lanes
  /\ Held(alloc, "gbps") + req.gbps <= capacity.gbps
Amounts(req) == [lanes |-> req.lanes, gbps |-> req.gbps]

\* C1: after any interleaving of allocate and release, the amounts granted
\* in each pool, summed over the identifiers that hold a grant, do not exceed
\* the capacity of the pool.
C1_UsageWithinCapacity ==
  /\ Held(alloc, "lanes") <= capacity.lanes
  /\ Held(alloc, "gbps") <= capacity.gbps

\* two holders fill both pools exactly, the second one by a partial grant
C1_Witness ==
  /\ drfRet.op = "allocate" /\ ~drfRet.floorMet
  /\ Cardinality(DOMAIN alloc) = 2
  /\ capacity.lanes > 0 /\ capacity.gbps > 0
  /\ Held(alloc, "lanes") = capacity.lanes
  /\ Held(alloc, "gbps") = capacity.gbps

\* C2: a floor-mandatory request that cannot be granted in full is rejected
\* with CapacityExceeded and the grants are left as they were.
C2_MandatoryRejectedAtomically ==
  [][(drfRet'.op = "allocate" /\ drfRet'.req.floorMandatory
        /\ ~FitsInFull(drfRet'.req))
      => (drfRet'.error = "CapacityExceeded" /\ alloc' = alloc)]_vars

\* C3: release of an identifier that holds nothing changes nothing and raises
\* no error, a second release in a row changes nothing, and a release lowers
\* the usage of each pool by exactly what the identifier held, leaving the
\* other identifiers' grants alone.
C3_ReleaseIdempotent ==
  [][drfRet'.op = "release" =>
       LET id == drfRet'.id
       IN /\ drfRet'.error = "none"
          /\ (id \notin DOMAIN alloc => alloc' = alloc)
          /\ ((drfRet.op = "release" /\ drfRet.id = id) => alloc' = alloc)
          /\ id \notin DOMAIN alloc'
          /\ DOMAIN alloc' = (DOMAIN alloc) \ {id}
          /\ \A y \in DOMAIN alloc' : alloc'[y] = alloc[y]
          /\ Held(alloc', "lanes") = Held(alloc, "lanes") - HeldBy(alloc, id, "lanes")
          /\ Held(alloc', "gbps") = Held(alloc, "gbps") - HeldBy(alloc, id, "gbps")
    ]_vars

\* a release has run and another identifier still holds its grant
C3_Witness ==
  /\ drfRet.op = "release"
  /\ drfRet.id \notin DOMAIN alloc
  /\ \E y \in DOMAIN alloc : alloc[y].lanes > 0 /\ alloc[y].gbps > 0

\* C4: for a request of an identifier that holds nothing, allocate grants
\* exactly the requested amounts with floorMet = TRUE when used + requested
\* is within capacity in both pools, and returns floorMet = TRUE only then.
C4_FullGrantIffFits ==
  [][(drfRet'.op = "allocate" /\ drfRet'.id \notin DOMAIN alloc) =>
       LET id == drfRet'.id
           req == drfRet'.req
       IN /\ FitsInFull(req) =>
               /\ drfRet'.floorMet
               /\ drfRet'.granted = Amounts(req)
               /\ id \in DOMAIN alloc' /\ alloc'[id] = Amounts(req)
          /\ drfRet'.floorMet => FitsInFull(req)
    ]_vars

\* a second identifier was granted in full beside an earlier holder
C4_Witness ==
  /\ drfRet.op = "allocate" /\ drfRet.floorMet
  /\ drfRet.req.lanes > 0 /\ drfRet.req.gbps > 0
  /\ Cardinality(DOMAIN alloc) = 2

\* C5: a request that is not floor-mandatory and does not fit in full is not
\* denied: the identifier then holds, in each pool independently,
\* max(0, min(requested, capacity - used)), and floorMet = FALSE is returned.
C5_PartialGrant ==
  [][(drfRet'.op = "allocate" /\ ~drfRet'.req.floorMandatory
        /\ ~FitsInFull(drfRet'.req)) =>
       LET id == drfRet'.id
           req == drfRet'.req
           part == [lanes |-> Max(0, Min(req.lanes,
                                 capacity.lanes - Held(alloc, "lanes"))),
                    gbps  |-> Max(0, Min(req.gbps,
                                 capacity.gbps - Held(alloc, "gbps")))]
       IN /\ drfRet'.error = "none"
          /\ ~drfRet'.floorMet
          /\ drfRet'.granted = part
          /\ id \in DOMAIN alloc' /\ alloc'[id] = part
    ]_vars

\* a request was granted in part: one pool in full, the other one short
C5_Witness ==
  /\ drfRet.op = "allocate" /\ ~drfRet.req.floorMandatory
  /\ ~drfRet.floorMet
  /\ drfRet.id \in DOMAIN alloc /\ alloc[drfRet.id] = drfRet.granted
  /\ drfRet.granted.lanes = drfRet.req.lanes /\ drfRet.granted.lanes > 0
  /\ drfRet.granted.gbps < drfRet.req.gbps /\ drfRet.granted.gbps > 0

\* C6: an allocate call for one identifier never changes what any other
\* identifier holds (no preemption, no eviction).
C6_NoPreemption ==
  [][drfRet'.op = "allocate" =>
       \A y \in Ids \ {drfRet'.id} :
          /\ (y \in DOMAIN alloc') = (y \in DOMAIN alloc)
          /\ y \in DOMAIN alloc => alloc'[y] = alloc[y]
    ]_vars

\* a request larger than what is left arrived while another identifier held
\* a grant, and that grant is still there
C6_Witness ==
  /\ drfRet.op = "allocate" /\ ~drfRet.floorMet
  /\ \E y \in (DOMAIN alloc) \ {drfRet.id} : alloc[y].lanes > 0

\* --------------------------------------------------------- attestation
\* the trust level the derivation rule gives
ExpectedTrust(firmwareOK, configOK, signed) ==
  IF firmwareOK /\ configOK THEN (IF signed THEN "high" ELSE "medium")
  ELSE IF firmwareOK # configOK THEN "low"
  ELSE "untrusted"

\* C7: AttestDevice returns (and stores) trust level high when both hashes
\* validate and a PQC signature was required and produced, medium when both
\* validate and none was required, low when exactly one validates, untrusted
\* when neither does.
C7_TrustLevelDerivation ==
  /\ attRet.op = "AttestDevice" =>
       /\ (attRet.pqcSignature # "") = attRet.requirePQC
       /\ attRet.trustLevel =
            ExpectedTrust(attRet.firmwareValid, attRet.configValid,
                          attRet.requirePQC /\ attRet.pqcSignature # "")
  /\ \A id \in DOMAIN attestations :
       attestations[id].trustLevel =
         ExpectedTrust(attestations[id].firmwareValid,
                       attestations[id].configValid,
                       attestations[id].pqcSignature # "")

\* a result of trust level low was just issued, after one of trust level high
C7_Witness ==
  /\ attRet.op = "AttestDevice" /\ attRet.trustLevel = "low"
  /\ \E id \in DOMAIN attestations : attestations[id].trustLevel = "high"
  /\ \E id \in DOMAIN attestations : attestations[id].trustLevel = "low"

\* C8: a ticket issued as valid is reported valid by GetAttestation /
\* VerifyAttestation at time now exactly when issuedAt <= now < expiresAt; a
\* verification at now = expiresAt or later reports it invalid.
C8_ValidExactlyBeforeExpiry ==
  (attRet.op \in {"GetAttestation", "VerifyAttestation"}
     /\ attRet.found /\ attRet.issuedValid)
  => (attRet.valid <=> (attRet.issuedAt <= attRet.at /\ attRet.at < attRet.expiresAt))

\* ------------------------------------------------------------- memqosd
\* C9: with attestation_required set, Allocate creates an allocation only if
\* a ticket is presented and the verifier reports it valid; with no ticket, an
\* invalid or expired ticket, or a failed verification it returns an error
\* and the handles and the identifier counter are unchanged.
C9_AttestationGate ==
  [][(memRet'.op = "Allocate" /\ memRet'.req.attestationRequired) =>
       LET presented == memRet'.req.attestationTicket # 0
           reportsValid == presented /\ memRet'.resp = "valid"
       IN /\ (allocations' # allocations \/ ffm_nextID' # ffm_nextID)
               => (reportsValid /\ memRet'.err = "none")
          /\ ~reportsValid =>
               /\ memRet'.err # "none"
               /\ allocations' = allocations
               /\ ffm_nextID' = ffm_nextID
    ]_vars

\* a request with a ticket the verifier reports invalid was refused, after a
\* request with a ticket had been admitted
C9_Witness ==
  /\ memRet.op = "Allocate" /\ memRet.req.attestationRequired
  /\ memRet.req.attestationTicket # 0 /\ memRet.resp = "invalid"
  /\ memRet.err = "attestation ticket invalid or expired"
  /\ \E id \in DOMAIN allocations : allocations[id].attestationTicket # 0
  /\ ffm_nextID = Cardinality(DOMAIN allocations) + 1

\* a bundle memqosd holds was admitted as asked: Allocate returns the handle
\* with no marker of a floor that is not met
ReadyBundles == DOMAIN allocations
RECURSIVE FloorSum(_)
FloorSum(S) ==
  IF S = {} THEN 0
  ELSE LET id == CHOOSE x \in S : TRUE
       IN allocations[id].bandwidthFloor + FloorSum(S \ {id})

\* C10: after any sequence of Allocate and AdjustBandwidth, the bandwidth
\* floors of the bundles held in Ready state sum to at most the pool's
\* provisioned bandwidth.
C10_FloorsWithinPool ==
  FloorSum(ReadyBundles) <= PoolBandwidthGBs

\* the pool bandwidth that the bundles memqosd holds have not been given
RECURSIVE AchievedSum(_)
AchievedSum(S) ==
  IF S = {} THEN 0
  ELSE LET id == CHOOSE x \in S : TRUE
       IN allocations[id].achievedBandwidth + AchievedSum(S \ {id})
RemainingGBs == Max(0, PoolBandwidthGBs - AchievedSum(DOMAIN allocations))

\* C11: a MemoryBundle allocation whose floor exceeds the bandwidth remaining
\* in the pool is admitted with an achieved bandwidth equal to what remains
\* (floor 150 against 100 remaining: 100), never more than what remains.
C11_DegradedAtRemaining ==
  [][(memRet'.op = "Allocate" /\ memRet'.err = "none"
        /\ memRet'.req.bandwidthFloor > RemainingGBs)
      => allocations'[memRet'.id].achievedBandwidth = RemainingGBs]_vars

\* ------------------------------------------------- the lifecycle supervisor
\* the enumerated edges; "None" is a resource that does not exist (not yet
\* submitted, or removed)
LifecycleEdges ==
  {<<"None", "Pending">>, <<"Pending", "Allocating">>,
   <<"Allocating", "Ready">>, <<"Allocating", "Degraded">>,
   <<"Ready", "Degraded">>, <<"Degraded", "Ready">>,
   <<"Releasing", "None">>}
  \cup {<<p, "Failed">> : p \in {"Pending", "Allocating", "Ready", "Degraded",
                                 "Releasing"}}
  \cup {<<p, "Releasing">> : p \in {"Pending", "Allocating", "Ready", "Degraded"}}

\* C12: the phase of a resource changes only along the enumerated edges, and
\* a resource that is Failed stays Failed.
C12_OnlyEnumeratedEdges ==
  [][\A r \in Ids :
       /\ life'[r].phase # life[r].phase
            => <<life[r].phase, life'[r].phase>> \in LifecycleEdges
       /\ life[r].phase = "Failed" => life'[r].phase = "Failed"
    ]_vars

\* one resource has failed on the escalation timeout while another is being
\* torn down
C12_Witness ==
  \E r, q \in Ids :
    /\ life[r].phase = "Failed" /\ life[r].reason = "EscalationTimeout"
    /\ life[q].phase = "Releasing"

C14_EscalationToFailed ==
  [][\A r \in Ids :
       /\ life'[r].phase = "Degraded" => life'[r].degradedFor <= escalationTimeout
       /\ (life[r].phase = "Degraded" /\ life[r].degradedFor >= escalationTimeout
             /\ life'[r] # life[r])
            => life'[r].phase \in {"Failed", "Releasing"}
       /\ life[r].phase = "Failed" => life'[r] = life[r]
    ]_vars

\* a resource has failed on the default 60 s escalation timeout
C14_Witness ==
  /\ escalationTimeout = 60000
  /\ \E r \in Ids : life[r].phase = "Failed" /\ life[r].reason = "EscalationTimeout"

\* the delay before retry k + 1 of a drift event
RECURSIVE ExpectedDelay(_)
ExpectedDelay(k) ==
  IF k = 0 THEN 100 ELSE IF k >= 4 THEN 1600 ELSE 2 * ExpectedDelay(k - 1)
RECURSIVE ExpectedRetryAt(_)
ExpectedRetryAt(k) ==
  IF k = 0 THEN 100 ELSE ExpectedRetryAt(k - 1) + ExpectedDelay(k)

ActiveOnDisabled(p) ==
  /\ p \in DOMAIN paths
  /\ paths[p].status = "active"
  /\ \/ devices[paths[p].sourceDevice].status = "disabled"
     \/ devices[paths[p].targetDevice].status = "disabled"

\* C16: once a device is disabled, every path that references it and is still
\* active eventually leaves the active state.
C16_DisabledDeviceFailsPaths ==
  \A p \in 1..MaxPaths :
    ActiveOnDisabled(p) ~> (p \notin DOMAIN paths \/ paths[p].status # "active")

\* ----------------------------------------------- memqosd with attestd
\* the ticket a handle was admitted with has expired
TicketExpired(ticket) ==
  /\ ticket \in DOMAIN attestations
  /\ now > attestations[ticket].expiresAt

\* C17: a bundle whose attestation ticket has expired is not adjusted: the
\* request is refused and the handle is left as it was.
C17_NoAdjustmentOnExpiredTicket ==
  [][(memRet'.op = "AdjustBandwidth" /\ memRet'.id \in DOMAIN allocations
        /\ TicketExpired(allocations[memRet'.id].attestationTicket))
      => (memRet'.err # "none" /\ allocations' = allocations)]_vars

\* ------------------------------------------- corridors on one device
ReadyCorridors ==
  {r \in Ids : life[r].phase = "Ready" /\ life[r].kind = "Corridor"}
RECURSIVE LaneSum(_)
LaneSum(S) ==
  IF S = {} THEN 0
  ELSE LET r == CHOOSE x \in S : TRUE
       IN life[r].req.lanes + LaneSum(S \ {r})

\* C18: the lane counts of the Ready corridors on the device sum to at most
\* its lane capacity, and the wavelength sets of any two Ready corridors on
\* the device are disjoint.
C18_LanesAndWavelengths ==
  /\ LaneSum(ReadyCorridors) <= capacity.lanes
  /\ \A r, q \in ReadyCorridors :
       r # q => life[r].lambdaNm \cap life[q].lambdaNm = {}

\* ------------------------------------------ memqosd: goroutines and mutex
\* C19: no goroutine holds the store's mutex while it waits for attestd's
\* answer.
C19_NoLockAcrossVerification ==
  \A p \in Procs :
    ffm_pc[p] = "verifyAttestation"
      => (ffm_mutex.writer # p /\ p \notin ffm_mutex.readers)

\* ------------------------------------------------ ticket verification
\* C20: a verification (GetAttestation, VerifyAttestation) is a read-only
\* query: it writes no field of any stored ticket.
C20_VerificationReadOnly ==
  [][attRet'.op \in {"GetAttestation", "VerifyAttestation"}
       => (attestations' = attestations /\ fab_attestations' = fab_attestations)
    ]_vars

\* ------------------------------------------ fabmand: inventory contract
\* the device statuses the inventory contract enumerates
DeviceStatuses == {"active", "maintenance", "disabled"}

\* C21: SetDeviceState(id, status) succeeds only when status is one of
\* active, maintenance, disabled and the device exists; for any other status
\* or an unknown id it returns an error and every device, the addressed one
\* included, keeps its status and last-seen time.
C21_SetDeviceStateValidated ==
  [][fabRet'.op = "SetDeviceState" =>
       LET accepted == /\ fabRet'.device \in DOMAIN devices
                       /\ fabRet'.status \in DeviceStatuses
       IN /\ (fabRet'.err = "none") <=> accepted
          /\ ~accepted => devices' = devices
          /\ accepted =>
               /\ devices'[fabRet'.device].status = fabRet'.status
               /\ \A d \in DOMAIN devices \ {fabRet'.device} :
                    devices'[d] = devices[d]
    ]_vars

\* an unknown status was refused on a device that an earlier call had put
\* into maintenance, at a later time
C21_Witness ==
  /\ fabRet.op = "SetDeviceState" /\ fabRet.err = "invalid status"
  /\ fabRet.device = "cxl-dev-001" /\ fabRet.status = "bogus"
  /\ devices["cxl-dev-001"].status = "maintenance"
  /\ devices["cxl-dev-001"].lastSeen < now

\* the path types the inventory contract enumerates
PathTypes == {"PBR", "GIM", "Direct"}

\* C22: CreatePath fails when the source device is unknown, the target device
\* is unknown, or the path type is not one of PBR, GIM, Direct, and then the
\* path map is unchanged; on success exactly one path is added, with status
\* active, under an identifier that was not in the path map.
C22_CreatePathValidated ==
  [][(fabRet'.op = "CreatePath" /\ fabVars' # fabVars) =>
       LET req == fabRet'.req
           fails == \/ req.sourceDevice \notin DOMAIN devices
                    \/ req.targetDevice \notin DOMAIN devices
                    \/ req.pathType \notin PathTypes
       IN /\ (fabRet'.err # "none") <=> fails
          /\ fails => paths' = paths
          /\ ~fails =>
               /\ fabRet'.id \notin DOMAIN paths
               /\ DOMAIN paths' = (DOMAIN paths) \cup {fabRet'.id}
               /\ paths'[fabRet'.id].status = "active"
               /\ \A n \in DOMAIN paths : paths'[n] = paths[n]
    ]_vars

\* a request with an unknown path type was refused after a path had been
\* created, each having taken an identifier
C22_Witness ==
  /\ fabRet.op = "CreatePath" /\ fabRet.err = "unsupported path_type"
  /\ DOMAIN paths = {1}
  /\ paths[1].status = "active"
  /\ nextPathID = 3

\* C23: devices are never deleted: after any sequence of SetDeviceState,
\* CreatePath, AddPolicy, DeletePolicy and AttestDevice calls the device map
\* holds exactly the devices it started with, the disabled ones included.
C23_DevicesNeverDeleted == DOMAIN devices = FabDevices

\* a device is disabled, a path was created and a ticket issued, and the
\* policy that had been added was deleted again
C23_Witness ==
  /\ devices["cxl-dev-001"].status = "disabled"
  /\ paths # EmptyMap
  /\ fab_attestations # EmptyMap
  /\ fabRet.op = "DeletePolicy" /\ fabRet.err = "none"
  /\ DOMAIN devices = FabDevices

\* C24: DeletePolicy(name) removes the policy entry and nothing else: the
\* device map, the path map and the path counter are unchanged; for a name
\* that is not stored it returns a not-found error and the policies are
\* unchanged too.
C24_DeletePolicyFrame ==
  [][(fabRet'.op = "DeletePolicy" /\ fabVars' # fabVars) =>
       LET name == fabRet'.policy.name
       IN /\ devices' = devices
          /\ paths' = paths
          /\ nextPathID' = nextPathID
          /\ IF name \in DOMAIN policies
             THEN /\ fabRet'.err = "none"
                  /\ policies' = MapDelete(policies, name)
             ELSE /\ fabRet'.err = "policy not found"
                  /\ policies' = policies
    ]_vars

\* the policy that had set a path's QoS was deleted: the path and its QoS
\* are still there
C24_Witness ==
  /\ fabRet.op = "DeletePolicy" /\ fabRet.err = "none"
  /\ policies = EmptyMap
  /\ 1 \in DOMAIN paths
  /\ paths[1].qos = "gold"

\* ----------------------------------------------------------- calibration
\* finalBER <= 1.1 * targetBER, for a bit error rate as the model keeps it
MeetsTolerance(ber) == ber.targetPositive /\ ber.gap <= 0
\* a Calibrate call that has returned
Returned(p) == cal_calls[p].pc = "done"
\* what a call that ran the loop has to return
LoopOutcome(c) ==
  /\ c.ret.err = "none"
  /\ c.ret.iterations <= maxIterations
  /\ IF MeetsTolerance(c.ret.finalBER)
     THEN c.ret.status = "converged" /\ c.ret.converged
     ELSE /\ c.ret.status = "partial_convergence" /\ ~c.ret.converged
          /\ c.ret.iterations = maxIterations

Scenario3BER == [targetPositive |-> TRUE, gap |-> 93]

\* C26: a call that ran the loop reports converged = true exactly when its
\* final bit error rate is at most 1.1 * targetBER; for targetBER = 1e-12 and
\* currentBER = 1e-9 it reports converged = true within the 20 iterations.
C26_ConvergedIffWithinTolerance ==
  \A p \in CalCalls :
    (Returned(p) /\ cal_calls[p].ret.err = "none") =>
      /\ cal_calls[p].ret.converged <=> MeetsTolerance(cal_calls[p].ret.finalBER)
      /\ cal_calls[p].req.ber = Scenario3BER =>
           /\ cal_calls[p].ret.converged
           /\ cal_calls[p].ret.iterations <= maxIterations

\* the call of scenario 3 has returned converged, after 10 iterations
C26_Witness ==
  \E p \in CalCalls :
    /\ Returned(p) /\ cal_calls[p].ret.err = "none"
    /\ cal_calls[p].req.ber = Scenario3BER
    /\ cal_calls[p].ret.converged
    /\ cal_calls[p].ret.iterations = 10
    /\ MeetsTolerance(cal_calls[p].ret.finalBER)

\* C27: from one iteration of a Calibrate call to the next the distance
\* |currentBER - targetBER| does not grow, whether or not the iteration
\* perturbs the bias voltages.
C27_DistanceNeverGrows ==
  [][\A p \in CalCalls :
       (/\ cal_calls[p].pc = "loop" /\ cal_calls'[p].pc = "loop"
        /\ cal_calls'[p].iterations = cal_calls[p].iterations + 1)
         => cal_calls'[p].ber.gap <= cal_calls[p].ber.gap
    ]_vars

\* a call is in its 20th iteration, closer to the target than it started,
\* with bias voltages that a perturbation has changed
C27_Witness ==
  \E p \in CalCalls :
    /\ cal_calls[p].pc = "loop"
    /\ cal_calls[p].iterations = maxIterations
    /\ cal_calls[p].ber.gap < cal_calls[p].req.ber.gap
    /\ cal_calls[p].bias = 1

\* C28: two Calibrate calls with the same request return the same error,
\* status, converged flag and finalBER, whatever random values each drew and
\* however they were interleaved with each other and with earlier calls.
C28_OutcomeFunctionOfRequest ==
  \A p, q \in CalCalls :
    (Returned(p) /\ Returned(q) /\ cal_calls[p].req = cal_calls[q].req) =>
      /\ cal_calls[p].ret.err = cal_calls[q].ret.err
      /\ cal_calls[p].ret.status = cal_calls[q].ret.status
      /\ cal_calls[p].ret.converged = cal_calls[q].ret.converged
      /\ cal_calls[p].ret.finalBER = cal_calls[q].ret.finalBER

\* two calls with the same request have returned with different bias
\* voltages and the same outcome
C28_Witness ==
  /\ Returned(1) /\ Returned(2)
  /\ cal_calls[1].req = cal_calls[2].req
  /\ cal_calls[1].ret.err = "none"
  /\ cal_calls[1].bias # cal_calls[2].bias
  /\ cal_calls[1].ret = cal_calls[2].ret

\* --------------------------------------------- memqosd: latency classes
\* the fields of a handle that a migration has to keep
KeptByMigration(h) ==
  [id |-> h.id, bytes |-> h.bytes, bandwidthFloor |-> h.bandwidthFloor,
   achievedBandwidth |-> h.achievedBandwidth,
   securityDomain |-> h.securityDomain]

\* C29: AdjustLatencyClass on an existing handle migrates it in place: the
\* handles stay the same in number and under the same identifiers, the
\* handle keeps its identifier, byte count, bandwidth floor, achieved
\* bandwidth and security domain, its latency class becomes the target, its
\* moved-page counter does not decrease, and every other handle is unchanged.
C29_MigrationInPlace ==
  [][memRet'.op = "AdjustLatencyClass" =>
       /\ DOMAIN allocations' = DOMAIN allocations
       /\ ffm_nextID' = ffm_nextID
       /\ metrics'.allocationsTotal = metrics.allocationsTotal
       /\ \A id \in DOMAIN allocations :
            /\ KeptByMigration(allocations'[id]) = KeptByMigration(allocations[id])
            /\ allocations'[id].movedPages >= allocations[id].movedPages
            /\ id # memRet'.id => allocations'[id] = allocations[id]
       /\ memRet'.id \in DOMAIN allocations =>
            /\ memRet'.err = "none"
            /\ allocations'[memRet'.id].latencyClass = memRet'.req.latencyClass
    ]_vars

\* the first of two handles was migrated twice and is now in T0
C29_Witness ==
  /\ memRet.op = "AdjustLatencyClass" /\ memRet.err = "none" /\ memRet.id = 1
  /\ DOMAIN allocations = {1, 2}
  /\ allocations[1].latencyClass = "T0"
  /\ allocations[1].movedPages = 2 * MigrationPages
  /\ allocations[2].movedPages = 0

\* the latency classes of a memory bundle
LatencyClasses == {"T0", "T1", "T2", "T3"}

\* C30: at every reachable state the latency class of every memory bundle
\* is one of T0, T1, T2, T3.
C30_LatencyClassEnumerated ==
  \A id \in DOMAIN allocations : allocations[id].latencyClass \in LatencyClasses

\* ------------------------------------------------- fabmand: policies
\* the paths stored under the identifier a policy targets
TargetPaths(p) == {n \in DOMAIN paths : PathID(n) = p.targetID}

\* C32: AddPolicy changes a path's QoS only when the policy is enabled,
\* matches 'path' and targets a stored path, whose QoS then is the policy's;
\* a disabled policy, a device policy and a policy with no such target are
\* stored all the same and change no path's QoS; no AddPolicy changes a
\* device's status or the set of paths.
C32_PolicyBestEffort ==
  [][fabRet'.op = "AddPolicy" =>
       LET p == fabRet'.policy
           applies == /\ fabRet'.err = "none" /\ p.enabled /\ p.match = "path"
                      /\ TargetPaths(p) # {}
       IN /\ DOMAIN paths' = DOMAIN paths
          /\ \A n \in DOMAIN paths :
               paths'[n].qos = IF applies /\ n \in TargetPaths(p)
                               THEN p.qos ELSE paths[n].qos
          /\ \A d \in DOMAIN devices : devices'[d].status = devices[d].status
          /\ (p.name # "" /\ p.match \in {"device", "path"}) =>
               /\ fabRet'.err = "none"
               /\ p.name \in DOMAIN policies'
               /\ policies'[p.name].targetID = p.targetID
               /\ policies'[p.name].enabled = p.enabled
    ]_vars

\* a disabled policy for path-0001 was stored and the path kept its QoS
C32_Witness ==
  /\ fabRet.op = "AddPolicy" /\ fabRet.err = "none"
  /\ fabRet.policy.match = "path" /\ ~fabRet.policy.enabled
  /\ "qos-a" \in DOMAIN policies /\ ~policies["qos-a"].enabled
  /\ 1 \in DOMAIN paths /\ paths[1].qos = "bronze"

\* C39: a rejected CreatePath leaves the inventory unchanged, the path
\* counter included, so the stored paths are numbered 1, 2, ... without gaps.
C39_RejectedCreatePathFrame ==
  [][(fabRet'.op = "CreatePath" /\ fabRet'.err # "none") =>
       /\ nextPathID' = nextPathID
       /\ paths' = paths /\ devices' = devices /\ policies' = policies
    ]_vars

\* ------------------------------------------- DRFScheduler: re-allocation
\* C36: repeating allocate(id, req) for an identifier that holds req in full
\* returns floorMet = true with the full grant again and leaves the grants,
\* and so the pool usage, as they were.
C36_ReallocateIdempotent ==
  [][(/\ drfRet'.op = "allocate"
      /\ drfRet'.id \in DOMAIN alloc
      /\ alloc[drfRet'.id] = Amounts(drfRet'.req))
       => /\ drfRet'.floorMet
          /\ drfRet'.granted = Amounts(drfRet'.req)
          /\ alloc' = alloc
    ]_vars

\* ---------------------------------------------- memqosd: bandwidth gauge
\* C37: after any sequence of Allocate and AdjustBandwidth operations the
\* ffm_bandwidth_total_gbps gauge equals the sum of the bandwidth floors of
\* the stored allocations, also after a floor was lowered.
C37_GaugeEqualsFloorSum ==
  /\ metrics.bandwidthTotal.wraps = 0
  /\ metrics.bandwidthTotal.gbps = FloorSum(DOMAIN allocations)

\* ------------------------------------------------- attestd: validity
\* the trust levels that stand for two validated hashes
TrustedLevels == {"high", "medium"}

\* C38: AttestDevice issues a result with valid = true exactly when both
\* hashes validated, which is exactly when its trust level is high or
\* medium; a stored or returned result with trust level low or untrusted is
\* never valid, at issuance or at a later GetAttestation.
C38_ValidIffTrusted ==
  /\ attRet.op = "AttestDevice" =>
       /\ attRet.valid <=> (attRet.firmwareValid /\ attRet.configValid)
       /\ attRet.valid <=> (attRet.trustLevel \in TrustedLevels)
  /\ (attRet.op = "GetAttestation" /\ attRet.found) =>
       (attRet.valid => attRet.trustLevel \in TrustedLevels)
  /\ \A id \in DOMAIN attestations :
       /\ attestations[id].valid =>
            (attestations[id].firmwareValid /\ attestations[id].configValid)
       /\ attestations[id].valid => attestations[id].trustLevel \in TrustedLevels

\* a low-trust result was looked up and is not valid, while a high-trust
\* result issued beside it is
C38_Witness ==
  /\ attRet.op = "GetAttestation" /\ attRet.found
  /\ attRet.trustLevel = "low" /\ ~attRet.valid
  /\ \E id \in DOMAIN attestations :
       attestations[id].trustLevel = "high" /\ attestations[id].valid

\* ------------------------------------------- tickets: fresh identifiers
\* C35: issuing a ticket never overwrites an earlier one: every ticket
\* that fabmand or attestd has stored stays stored under its identifier as
\* it was issued, for the same device and with the same time of issue.
C35_IssuanceNeverOverwrites ==
  [][/\ \A id \in DOMAIN fab_attestations :
          /\ id \in DOMAIN fab_attestations'
          /\ fab_attestations'[id].deviceID = fab_attestations[id].deviceID
          /\ fab_attestations'[id].issuedAt = fab_attestations[id].issuedAt
     /\ \A id \in DOMAIN attestations :
          /\ id \in DOMAIN attestations'
          /\ attestations'[id].deviceID = attestations[id].deviceID
          /\ attestations'[id].issuedAt = attestations[id].issuedAt
    ]_vars


\* ------------------------------------------- memqosd: concurrent Allocate
\* the goroutine p returns from Allocate in this step
AllocateReturns(p) ==
  /\ ffm_call[p].op = "Allocate"
  /\ ffm_pc[p] # "idle"
  /\ ffm_pc'[p] = "idle"

\* C33: in any interleaving of concurrent Allocate calls, a successful call
\* returns an identifier that no earlier call returned and no stored handle
\* has, the handle is in the store under that identifier when the call
\* returns, and the handles stored before are still there, unchanged.
C33_ConcurrentAllocateDistinct ==
  [][\A p \in Procs :
       (AllocateReturns(p) /\ memRet'.err = "none")
         => /\ memRet'.id \notin DOMAIN allocations
            /\ memRet'.id \in DOMAIN allocations'
            /\ allocations'[memRet'.id].id = memRet'.id
            /\ \A id \in DOMAIN allocations :
                 id \in DOMAIN allocations' /\ allocations'[id] = allocations[id]
    ]_vars
\* one Allocate call has returned a stored handle while another goroutine
\* is inside Allocate, holding the mutex
C33_Witness ==
  /\ memRet.op = "Allocate" /\ memRet.err = "none"
  /\ memRet.id \in DOMAIN allocations
  /\ \E q \in Procs : ffm_pc[q] = "verifyAttestation"


\* ----------------------------------------------------- security service
\* C34: no GeneratePQCKey, GetPQCKey or CreatePolicy call stands at
\* logAuditEvent's Lock while it holds the service mutex itself, where it
\* would never return.
C34_NoCallWaitsForOwnMutex ==
  \A p \in Procs :
    sec_pc[p].at = "logAuditEvent"
      => (sec_mutex.writer # p /\ p \notin sec_mutex.readers)

\* C40: the audit log holds at most 1000 entries and no two entries in it
\* have the same identifier.
C40_AuditLogBoundedDistinct ==
  /\ Len(auditLog) <= AuditLogCap
  /\ Cardinality({auditLog[i].id : i \in DOMAIN auditLog}) = Len(auditLog)


\* ---------------------------------------------------------------- compatd
\* C31: a translation enters the store with status pending; its status
\* becomes completed only in a step of its goroutine while that goroutine
\* holds the store's mutex; a completed translation stays in the store,
\* completed; and, the goroutines being scheduled, every stored translation
\* is eventually completed.
C31_PendingThenCompletedUnderLock ==
  /\ [][\A id \in TransIDs :
          /\ (id \notin DOMAIN translations /\ id \in DOMAIN translations')
               => translations'[id].status = "pending"
          /\ (id \in DOMAIN translations /\ id \in DOMAIN translations'
                /\ translations'[id].status # translations[id].status)
               => (cmp_mutex = id /\ translations'[id].status = "completed")
          /\ (id \in DOMAIN translations /\ translations[id].status = "completed")
               => (id \in DOMAIN translations'
                     /\ translations'[id].status = "completed")
       ]_vars
  /\ \A id \in TransIDs :
       (id \in DOMAIN translations)
         ~> (id \in DOMAIN translations /\ translations[id].status = "completed")
\* one translation is completed while a later one, still pending, has its
\* goroutine waiting for the mutex
C31_Witness ==
  \E id, other \in DOMAIN translations :
    /\ translations[id].status = "completed"
    /\ translations[other].status = "pending"
    /\ other \in DOMAIN cmp_tasks
    /\ cmp_tasks[other].pc = "Lock"

====
